---- MODULE Spec2Model ----
(***************************************************************************)
(* A model of sandbox-sdk: the Sandbox manager (sandbox/manager.py) and    *)
(* its two runner backends (sandbox/runners/subprocess.py, docker.py).     *)
(*                                                                         *)
(* Text is a sequence of tokens; a token stands for a fragment of text.    *)
(* Python's None is the record None for optional text, and NoTimeout for   *)
(* an absent timeout.  Dictionaries are functions; a key is present when   *)
(* it is in the DOMAIN.                                                    *)
(***************************************************************************)
EXTENDS Integers, Sequences, FiniteSets, TLC

\* ------------------------------------------------------------------ bounds
\* Number of API calls issued on one Sandbox / runner.
MaxCalls == 2
\* Longest time (in ticks) the clock is followed while a guest runs.
MaxTicks == 2

\* ------------------------------------------------------- optional values
None == [set |-> FALSE, text |-> <<>>]
Some(t) == [set |-> TRUE, text |-> t]
\* Python truthiness of an optional string: None and "" are both falsy.
Truthy(e) == e.set /\ e.text # <<>>
\* timeout=None
NoTimeout == -1

\* Left-biased dictionary merge: {**b, **a}.
Merge(a, b) ==
    [k \in (DOMAIN a) \cup (DOMAIN b) |-> IF k \in DOMAIN a THEN a[k] ELSE b[k]]
EmptyDict == [k \in {} |-> ""]
\* dict.get(key) with Python's None as the string "None".
Get(d, k) == IF k \in DOMAIN d THEN d[k] ELSE "None"

\* ----------------------------------------------------------- environment
DEFAULT_ALLOWED_ENV_VARS ==
    {"PATH", "HOME", "USER", "TMPDIR", "TEMP", "TMP", "LANG", "LC_ALL"}
DEFAULT_ALLOWED_ENV_VARS_DOCKER == {"LANG", "LC_ALL"}

\* os.environ of the host: USER and TEMP are not set, TMP is set but empty.
HostEnviron ==
    [k \in {"PATH", "HOME", "TMPDIR", "TMP", "SECRET"} |->
        IF k = "TMP" THEN "" ELSE "host-value"]
\* os.environ.get(k, "")
HostGet(k) == IF k \in DOMAIN HostEnviron THEN HostEnviron[k] ELSE ""

\* The loop `for key, value in environment.items(): if key in allowed`.
FilterEnv(environment, allowed_env_vars) ==
    [k \in {n \in DOMAIN environment : n \in allowed_env_vars} |-> environment[k]]

\* Names re-injected from the host by the process backend.
ReinjectedNames(filtered, allowed_env_vars) ==
    {n \in {"PATH", "HOME", "USER"} : n \in allowed_env_vars /\ n \notin DOMAIN filtered}
    \cup {n \in {"TMPDIR", "TEMP", "TMP"} :
            n \in allowed_env_vars /\ n \notin DOMAIN filtered /\ HostGet(n) # ""}

\* The filtered environment of the process backend with nothing taken from
\* the host.
SubprocessFilteredEnv_NoHost(environment, allowed_env_vars) ==
    FilterEnv(environment, allowed_env_vars)

SubprocessFilteredEnv(environment, allowed_env_vars) ==
    LET filtered == FilterEnv(environment, allowed_env_vars)
        extra == ReinjectedNames(filtered, allowed_env_vars)
    IN  Merge(filtered, [n \in extra |-> HostGet(n)])

\* ---------------------------------------------------------- constructors
\* A constructor yields [ok |-> TRUE, runner |-> r] or [ok |-> FALSE, exc |-> e].
Exc(type, msg) == [type |-> type, msg |-> msg]
Raised(type, msg) == [ok |-> FALSE, exc |-> Exc(type, msg)]
\* allowed is the allow-list the constructor filtered with.
Built(r, allowed) == [ok |-> TRUE, runner |-> r, allowed |-> allowed]

\* Keyword arguments of the two runner constructors.
SubprocessParams ==
    {"environment", "timeout", "allowed_env_vars", "cpu_time_limit", "memory_limit"}
DockerParams ==
    {"image", "environment", "timeout", "allow_network", "allowed_env_vars",
     "docker_client_kwargs", "container_kwargs"}

_DEFAULT_IMAGE == "ghcr.io/astral-sh/uv:python3.10-alpine"
_CONTAINER_SCRIPT_PATH == "/sandbox_script.py"

\* An allow-list argument: a set of names, or the absent argument (None).
Names(s) == [given |-> TRUE, names |-> s]
NoAllowList == [given |-> FALSE, names |-> {}]

\* Argument defaults of SubprocessSandboxRunner.__init__.
SubprocessDefaults ==
    [environment |-> EmptyDict, timeout |-> 60, allowed_env_vars |-> NoAllowList,
     cpu_time_limit |-> 0, memory_limit |-> 0]

\* SubprocessSandboxRunner.__init__ without the check of shutil.which("uv").
SubprocessSandboxRunner_NoUvCheck(kwargs, uv) ==
    IF ~(DOMAIN kwargs \subseteq SubprocessParams)
    THEN Raised("TypeError", <<"unexpected keyword argument">>)
    ELSE LET a == Merge(kwargs, SubprocessDefaults)
             allowed == IF ~a.allowed_env_vars.given
                        THEN DEFAULT_ALLOWED_ENV_VARS ELSE a.allowed_env_vars.names
         IN  Built([type |-> "subprocess",
                    environment |-> SubprocessFilteredEnv(a.environment, allowed),
                    timeout |-> a.timeout,
                    cpu_time_limit |-> a.cpu_time_limit,
                    memory_limit |-> a.memory_limit],
                   allowed)

\* SubprocessSandboxRunner.__init__; uv is shutil.which("uv") having found it.
SubprocessSandboxRunner(kwargs, uv) ==
    IF ~(DOMAIN kwargs \subseteq SubprocessParams)
    THEN Raised("TypeError", <<"unexpected keyword argument">>)
    ELSE IF ~uv
    THEN Raised("FileNotFoundError",
                <<"The 'uv' command was not found in the system PATH.">>)
    ELSE LET a == Merge(kwargs, SubprocessDefaults)
             allowed == IF ~a.allowed_env_vars.given
                        THEN DEFAULT_ALLOWED_ENV_VARS ELSE a.allowed_env_vars.names
         IN  Built([type |-> "subprocess",
                    environment |-> SubprocessFilteredEnv(a.environment, allowed),
                    timeout |-> a.timeout,
                    cpu_time_limit |-> a.cpu_time_limit,
                    memory_limit |-> a.memory_limit],
                   allowed)

DockerDefaults ==
    [image |-> _DEFAULT_IMAGE, environment |-> EmptyDict, timeout |-> NoTimeout,
     allow_network |-> FALSE, allowed_env_vars |-> NoAllowList,
     docker_client_kwargs |-> EmptyDict, container_kwargs |-> EmptyDict]

\* DockerSandboxRunner.__init__
DockerSandboxRunner(kwargs) ==
    IF ~(DOMAIN kwargs \subseteq DockerParams)
    THEN Raised("TypeError", <<"unexpected keyword argument">>)
    ELSE LET a == Merge(kwargs, DockerDefaults)
             allowed == IF ~a.allowed_env_vars.given
                        THEN DEFAULT_ALLOWED_ENV_VARS_DOCKER ELSE a.allowed_env_vars.names
         IN  Built([type |-> "docker",
                    environment |-> FilterEnv(a.environment, allowed),
                    timeout |-> a.timeout,
                    image |-> a.image,
                    allow_network |-> a.allow_network,
                    docker_client_kwargs |-> a.docker_client_kwargs,
                    container_kwargs |-> a.container_kwargs],
                   allowed)

_RUNNER_CLASSES == {"subprocess", "docker"}

\* runner_cls(**runner_init_args)
RunnerCls(runner_type, kwargs, uv) ==
    IF runner_type = "subprocess"
    THEN SubprocessSandboxRunner(kwargs, uv)
    ELSE DockerSandboxRunner(kwargs)

\* Sandbox.__init__ handing allow_network to the runner of either backend.
SandboxInit_ForwardsNetwork(runner_type, environment, timeout, allow_network, allowed_env_vars, runner_kwargs, uv) ==
    IF runner_type \notin _RUNNER_CLASSES
    THEN [ok |-> FALSE, exc |-> Exc("ValueError", <<"Unknown runner_type">>),
          entered |-> 0]
    ELSE LET final_allowed_env_set ==
                 IF allowed_env_vars.given THEN allowed_env_vars
                 ELSE IF runner_type = "docker"
                      THEN Names(DEFAULT_ALLOWED_ENV_VARS_DOCKER)
                      ELSE Names(DEFAULT_ALLOWED_ENV_VARS)
             args0 == Merge(runner_kwargs,
                            [environment |-> environment, timeout |-> timeout,
                             allowed_env_vars |-> final_allowed_env_set])
             runner_init_args ==
                 IF "allow_network" \notin DOMAIN args0
                 THEN Merge(args0, [allow_network |-> allow_network])
                 ELSE args0
             made == RunnerCls(runner_type, runner_init_args, uv)
         IN  IF made.ok
             THEN [ok |-> TRUE, runner |-> made.runner, allowed |-> made.allowed,
                   entered |-> 1]
             ELSE IF made.exc.type \in {"ImportError", "FileNotFoundError"}
             THEN [ok |-> FALSE,
                   exc |-> Exc(made.exc.type,
                               <<"Failed to init runner">> \o made.exc.msg),
                   entered |-> 1]
             ELSE [ok |-> FALSE,
                   exc |-> Exc("RuntimeError",
                               <<"Failed to initialize runner">> \o made.exc.msg),
                   entered |-> 1]

\* Sandbox.__init__: the runner it stores, or the exception it raises.
\* entered counts the runner constructors that were entered.
SandboxInit(runner_type, environment, timeout, allow_network, allowed_env_vars, runner_kwargs, uv) ==
    IF runner_type \notin _RUNNER_CLASSES
    THEN [ok |-> FALSE, exc |-> Exc("ValueError", <<"Unknown runner_type">>),
          entered |-> 0]
    ELSE LET final_allowed_env_set ==
                 IF allowed_env_vars.given THEN allowed_env_vars
                 ELSE IF runner_type = "docker"
                      THEN Names(DEFAULT_ALLOWED_ENV_VARS_DOCKER)
                      ELSE Names(DEFAULT_ALLOWED_ENV_VARS)
             args0 == Merge(runner_kwargs,
                            [environment |-> environment, timeout |-> timeout,
                             allowed_env_vars |-> final_allowed_env_set])
             runner_init_args ==
                 IF runner_type = "docker" /\ "allow_network" \notin DOMAIN args0
                 THEN Merge(args0, [allow_network |-> allow_network])
                 ELSE args0
             made == RunnerCls(runner_type, runner_init_args, uv)
         IN  IF made.ok
             THEN [ok |-> TRUE, runner |-> made.runner, allowed |-> made.allowed,
                   entered |-> 1]
             ELSE IF made.exc.type \in {"ImportError", "FileNotFoundError"}
             THEN [ok |-> FALSE,
                   exc |-> Exc(made.exc.type,
                               <<"Failed to init runner">> \o made.exc.msg),
                   entered |-> 1]
             ELSE [ok |-> FALSE,
                   exc |-> Exc("RuntimeError",
                               <<"Failed to initialize runner">> \o made.exc.msg),
                   entered |-> 1]

\* ------------------------------------------------------------------ text
Whitespace == {"\n", " "}

\* Longest output quoted in a message.
PREVIEW_LIMIT == 1000
\* An output longer than that: one token for each character.
LongText == [i \in 1..(PREVIEW_LIMIT + 1) |-> "x"]

RECURSIVE LStrip(_)
LStrip(t) == IF t # <<>> /\ Head(t) \in Whitespace THEN LStrip(Tail(t)) ELSE t
RECURSIVE RStrip(_)
RStrip(t) ==
    IF t # <<>> /\ t[Len(t)] \in Whitespace THEN RStrip(SubSeq(t, 1, Len(t) - 1)) ELSE t
\* str.strip()
Strip(t) == RStrip(LStrip(t))

\* str(n) for the exit statuses of the model.
IntStr(n) ==
    CASE n = 0 -> "0" [] n = 1 -> "1" [] n = 2 -> "2" [] n = 3 -> "3"
      [] n = 60 -> "60" [] n = -9 -> "-9" [] OTHER -> "?"

\* ------------------------------------------------------------ exceptions
NoExc == Exc("none", <<>>)
\* docker.errors: ImageNotFound and NotFound are APIErrors, which are DockerExceptions.
IsNotFound(e) == e.type \in {"ImageNotFound", "NotFound"}
IsDockerException(e) == e.type \in {"ImageNotFound", "NotFound", "APIError", "DockerException"}
\* UnicodeEncodeError is a ValueError.
IsValueError(e) == e.type \in {"ValueError", "UnicodeEncodeError"}

\* What execute_script or an API call hands back to its caller.
NoOutcome == [kind |-> "none"]
Return(r) == [kind |-> "return", value |-> r]
Raise(e) == [kind |-> "raise", exc |-> e]

\* result: Result = {"stdout": "", "stderr": "", "error": None}
InitialResult == [stdout |-> <<>>, stderr |-> <<>>, error |-> None]

\* ------------------------------------------------------- inputs (bounded)
\* Environment maps a caller supplies.
Environments ==
    { EmptyDict,
      [k \in {"SECRET", "LANG"} |-> "user-value"],
      [k \in {"SECRET", "PATH", "TMP", "MY_VAR"} |-> "user-value"] }
\* Allow-lists a caller supplies (NoAllowList: the argument is left out).
AllowLists ==
    { NoAllowList, Names({}), Names({"LANG", "MY_VAR"}),
      Names({"PATH", "USER", "TMPDIR", "TEMP", "TMP"}) }
Timeouts == {NoTimeout, 1}
\* container_kwargs a caller supplies.
ContainerKwargs ==
    { EmptyDict,
      [network_mode |-> "bridge"],
      [network_mode |-> "none"],
      [cap_drop |-> <<>>, security_opt |-> <<>>],
      [environment |-> [k \in {"SECRET"} |-> "user-value"]],
      [mem_limit |-> "64m"] }
\* Images the daemon can resolve.
AvailableImages == {_DEFAULT_IMAGE}
\* runner_kwargs a caller hands to Sandbox.
RunnerKwargs ==
    { EmptyDict, [cpu_time_limit |-> 1], [allow_network |-> TRUE],
      [image |-> "no-such-image"] }
    \cup { [container_kwargs |-> ck] : ck \in ContainerKwargs \ {EmptyDict} }
RunnerTypes == {"subprocess", "docker", "podman"}
\* An environment holding a name no default allow-list has.
SecretEnv == [k \in {"SECRET", "LANG"} |-> "user-value"]

\* Arguments of Sandbox(...): every environment with every allow-list under
\* the default options, and every combination of the options under one
\* environment.
SandboxArgs ==
    { [runner_type |-> t, environment |-> e, allowed_env_vars |-> a, timeout |-> 1,
       allow_network |-> FALSE, runner_kwargs |-> EmptyDict] :
        t \in RunnerTypes, e \in Environments, a \in AllowLists }
    \cup
    { [runner_type |-> t, environment |-> SecretEnv, allowed_env_vars |-> NoAllowList,
       timeout |-> to, allow_network |-> n, runner_kwargs |-> k] :
        t \in _RUNNER_CLASSES, to \in Timeouts, n \in BOOLEAN, k \in RunnerKwargs }

\* Keyword arguments of a runner that is constructed directly.
DirectArgs ==
    { EmptyDict, [timeout |-> 1] }
    \cup { [environment |-> e, allowed_env_vars |-> a] :
             e \in Environments \ {EmptyDict}, a \in AllowLists }
    \cup { [environment |-> SecretEnv, container_kwargs |-> ck, allow_network |-> n] :
             ck \in ContainerKwargs, n \in BOOLEAN }

\* A value of the deps mapping: a version-constraint string, or a
\* DependencyInfo record ("" and <<>> when the key is left out).
Constraint(text) == [kind |-> "str", text |-> text]
DependencyInfo(version, extras) == [kind |-> "dict", version |-> version, extras |-> extras]
Dep(name, value) == [name |-> name, value |-> value]
\* deps mappings a caller supplies, as the items in insertion order;
\* deps=None and deps={} are both <<>>.
DependencyMaps ==
    { <<>>,
      <<Dep("cowsay", Constraint("*"))>>,
      <<Dep("numpy", Constraint(">=1.20"))>>,
      <<Dep("attrs", DependencyInfo("23.1", <<>>))>>,
      <<Dep("httpx", DependencyInfo("", <<"http2">>))>>,
      <<Dep("rich", DependencyInfo("", <<>>))>>,
      <<Dep("requests", DependencyInfo("2.31", <<"socks", "security">>)),
        Dep("cowsay", Constraint("*"))>>,
      <<Dep("cowsay", Constraint("*")),
        Dep("requests", DependencyInfo("2.31", <<"socks", "security">>))>> }

\* ------------------------------------------------------------------ state
VARIABLES
    uv_on_path,   \* host: shutil.which("uv") finds the script runner
    owner,        \* what the caller constructed: "none", "Sandbox", "Runner"
    runner,       \* the runner object, NoRunner when none exists
    ctor_exc,     \* the exception the constructor raised, NoExc when none
    requested,    \* the backend name the caller asked for
    allowed,      \* the allow-list the runner's constructor filtered with
    entered,      \* number of runner constructors entered
    calls,        \* number of API calls started
    api,          \* the API call in flight: "none", "execute", "run", "run_function"
    pc,           \* position inside the call
    script,       \* script_content of execute_script (<<>> once it is written out)
    result,       \* the Result dictionary under construction
    pending,      \* the exception propagating out of the try block
    tmp_path,     \* local tmp_path of execute_script (0 is None)
    files,        \* temporary files that exist on the host
    container,    \* local container of execute_script (0 is None)
    containers,   \* the daemon's containers: id -> settings, state, stop calls
    child,        \* the guest: "none", "running", "exited", "killed"
    child_env,    \* environment the child process was started with
    elapsed,      \* ticks the call has waited for the guest (0 when not waiting)
    executes,     \* execute_script invocations of the call in flight
    exec_outcome, \* what execute_script returned or raised
    outcome,      \* what the API call returned or raised
    trace,        \* the call in flight as its surroundings saw it: the
                  \* arguments, the fault that struck and what the guest did
    dependencies, \* Sandbox.dependencies: the items in insertion order
    given,        \* the arguments the constructor was called with
    caller,       \* the caller (thread) whose call the variables above hold
    other,        \* the call of the other caller of the same runner
    first         \* the first call of a runner that is called repeatedly: its
                  \* trace and what execute_script handed back

vars == <<uv_on_path, owner, runner, ctor_exc, requested, allowed, entered, calls, api, pc, script,
          result, pending, tmp_path, files, container, containers, child,
          child_env, elapsed, executes, exec_outcome, outcome, trace, dependencies,
          given, caller, other, first>>

NoRunner == [type |-> "none"]

host_vars == <<uv_on_path, dependencies, given, caller, other, first>>
ctor_vars == <<owner, runner, ctor_exc, requested, allowed, entered>>
call_vars == <<calls, api, executes>>
sub_vars == <<tmp_path, files, child_env>>
dk_vars == <<container, containers>>
guest_vars == <<child, elapsed>>
out_vars == <<exec_outcome, outcome>>

\* Nothing has happened in the call yet.
NoTrace ==
    [code |-> "", inputs |-> "None", fault |-> NoExc, ended |-> "none",
     returncode |-> 0, stdout |-> <<>>, stderr |-> <<>>, behaviour |-> "none"]

\* No constructor was called with recorded arguments.
NoGiven ==
    [runner_type |-> "none", environment |-> EmptyDict, allowed_env_vars |-> NoAllowList,
     timeout |-> NoTimeout, allow_network |-> FALSE, runner_kwargs |-> EmptyDict,
     deps |-> <<>>]

\* The variables of a caller that has called nothing yet.
NoFrame ==
    [calls |-> 0, api |-> "none", pc |-> "idle", script |-> <<>>,
     result |-> InitialResult, pending |-> NoExc, tmp_path |-> 0,
     child_env |-> EmptyDict, container |-> 0, child |-> "none", elapsed |-> 0,
     executes |-> 0, exec_outcome |-> NoOutcome, outcome |-> NoOutcome,
     trace |-> NoTrace]

\* No first call is on record.
NoFirst == [set |-> FALSE, trace |-> NoTrace, exec_outcome |-> NoOutcome]

Init ==
    /\ uv_on_path \in BOOLEAN
    /\ owner = "none"
    /\ runner = NoRunner
    /\ ctor_exc = NoExc
    /\ requested = "none"
    /\ allowed = {}
    /\ entered = 0
    /\ calls = 0
    /\ api = "none"
    /\ pc = "idle"
    /\ script = <<>>
    /\ result = InitialResult
    /\ pending = NoExc
    /\ tmp_path = 0
    /\ files = {}
    /\ container = 0
    /\ containers = <<>>
    /\ child = "none"
    /\ child_env = EmptyDict
    /\ elapsed = 0
    /\ executes = 0
    /\ exec_outcome = NoOutcome
    /\ outcome = NoOutcome
    /\ trace = NoTrace
    /\ dependencies = <<>>
    /\ given = NoGiven
    /\ caller = 0
    /\ other = NoFrame
    /\ first = NoFirst

\* ------------------------------------------------------------ construction
\* Sandbox(runner_type=..., environment=..., ...)
NewSandbox ==
    /\ owner = "none"
    /\ \E a \in SandboxArgs :
          LET made == SandboxInit(a.runner_type, a.environment, a.timeout,
                                  a.allow_network, a.allowed_env_vars,
                                  a.runner_kwargs, uv_on_path)
          IN  /\ owner' = "Sandbox"
              /\ runner' = IF made.ok THEN made.runner ELSE NoRunner
              /\ ctor_exc' = IF made.ok THEN NoExc ELSE made.exc
              /\ requested' = a.runner_type
              /\ allowed' = IF made.ok THEN made.allowed ELSE {}
              /\ entered' = entered + made.entered
    /\ UNCHANGED <<host_vars, trace, call_vars, script, pc, result, pending, sub_vars, dk_vars,
                   guest_vars, out_vars>>

\* SubprocessSandboxRunner(...) or DockerSandboxRunner(...) constructed directly.
NewRunner ==
    /\ owner = "none"
    /\ \E runner_type \in _RUNNER_CLASSES, kwargs \in DirectArgs :
          LET made == RunnerCls(runner_type, kwargs, uv_on_path)
          IN  /\ owner' = "Runner"
              /\ runner' = IF made.ok THEN made.runner ELSE NoRunner
              /\ ctor_exc' = IF made.ok THEN NoExc ELSE made.exc
              /\ requested' = runner_type
              /\ allowed' = IF made.ok THEN made.allowed ELSE {}
              /\ entered' = entered + 1
    /\ UNCHANGED <<host_vars, trace, call_vars, script, pc, result, pending, sub_vars, dk_vars,
                   guest_vars, out_vars>>

\* ------------------------------------------------------- script builder
\* Code bodies a caller submits; the second holds a lone surrogate, which
\* the utf-8 codec cannot encode.
Codes == {"print('hi')", "print('\\ud800')"}
Unencodable == {"print('\\ud800')"}
Encodable(text) == \A i \in 1..Len(text) : text[i] \notin Unencodable

\* Input mappings for run_function: None, a JSON-serializable mapping, and a
\* mapping holding a value json.dumps rejects.
InputMappings == {"None", "{'a': 3}", "{'a': object()}"}
NotJsonSerializable == {"{'a': object()}"}

\* encode_inputs with json.dumps(inputs, default=str).
encode_inputs_Lenient(inputs) ==
    CASE inputs = "None" -> [ok |-> TRUE, text |-> <<"{}">>]
      [] inputs = "{'a': 3}" -> [ok |-> TRUE, text |-> <<"{\"a\": 3}">>]
      [] OTHER -> [ok |-> TRUE, text |-> <<"{\"a\": \"<object>\"}">>]

\* encode_inputs
encode_inputs(inputs) ==
    CASE inputs = "None" -> [ok |-> TRUE, text |-> <<"{}">>]
      [] inputs = "{'a': 3}" -> [ok |-> TRUE, text |-> <<"{\"a\": 3}">>]
      [] OTHER -> [ok |-> FALSE,
                   exc |-> Exc("ValueError",
                               <<"Inputs dictionary is not JSON serializable: ">>)]

\* str.join: the texts of parts with sep between them.
RECURSIVE Join(_, _)
Join(parts, sep) ==
    IF parts = <<>> THEN <<>>
    ELSE IF Len(parts) = 1 THEN Head(parts)
    ELSE Head(parts) \o <<sep>> \o Join(Tail(parts), sep)

\* One element of dep_lines with every constraint written as a pinned version.
DepLine_AlwaysPinned(key, value) ==
    IF value.kind = "str"
    THEN IF value.text = "*"
         THEN <<"\"", key, "\"">>
         ELSE <<"\"", key, "==", value.text, "\"">>
    ELSE <<"\"", key, "[">>
         \o Join([i \in DOMAIN value.extras |-> <<value.extras[i]>>], ",")
         \o <<"]", "==", value.version, "\"">>

\* One element of dep_lines in _format_dependencies.
DepLine(key, value) ==
    IF value.kind = "str"
    THEN IF value.text = "*"
         THEN <<"\"", key, "\"">>
         ELSE <<"\"", key, value.text, "\"">>
    ELSE IF value.kind = "dict"
    THEN <<"\"", key>>
         \o (IF value.extras # <<>>
             THEN <<"[">> \o Join([i \in DOMAIN value.extras |-> <<value.extras[i]>>], ",")
                  \o <<"]">>
             ELSE <<>>)
         \o (IF value.version # "" THEN <<"==", value.version>> ELSE <<>>)
         \o <<"\"">>
    ELSE <<"\"", key, "\"">>

\* Sandbox._format_dependencies
_format_dependencies ==
    Join([i \in DOMAIN dependencies |->
            DepLine(dependencies[i].name, dependencies[i].value)],
         ",\n#    ")

\* The header of both script templates.
ScriptHeader ==
    <<"# /// script\n", "# requires-python = \">=3.10\"\n", "# dependencies = [\n",
      "#    ">> \o _format_dependencies \o <<"\n", "# ]\n", "# ///\n">>

\* Sandbox._generate_script
_generate_script(code) == <<"\n">> \o ScriptHeader \o <<code, "\n">>

\* Sandbox._generate_function_script, given the encoded inputs.
_generate_function_script(code, encoded, is_async) ==
    ScriptHeader
    \o <<"import json, sys, base64, traceback\n">>
    \o (IF is_async THEN <<"import asyncio\n">> ELSE <<>>)
    \o <<code, "\n", "if __name__ == \"__main__\":\n", "b64:">> \o encoded
    \o <<IF is_async THEN "asyncio.run(main(**inputs_dict))" ELSE "main(**inputs_dict)">>

\* ------------------------------------------------------------- API calls
Idle == pc = "idle" /\ runner # NoRunner /\ calls < MaxCalls

\* First position of execute_script on the runner's backend.
EntryPc == IF runner.type = "subprocess" THEN "sub_tmp" ELSE "dk_connect"

\* Entering execute_script with the Result of the call before kept in place
\* of a fresh one.
EnterExecute_KeepsResult(script_content) ==
    /\ script' = script_content
    /\ result' = result
    /\ pending' = NoExc
    /\ tmp_path' = 0
    /\ container' = 0
    /\ child' = "none"
    /\ elapsed' = 0
    /\ executes' = 1
    /\ exec_outcome' = NoOutcome
    /\ pc' = EntryPc

\* Entering execute_script(script_content): the locals are initialised.
EnterExecute(script_content) ==
    /\ script' = script_content
    /\ result' = InitialResult
    /\ pending' = NoExc
    /\ tmp_path' = 0
    /\ container' = 0
    /\ child' = "none"
    /\ elapsed' = 0
    /\ executes' = 1
    /\ exec_outcome' = NoOutcome
    /\ pc' = EntryPc

\* runner.execute_script(script_content) called directly.
CallExecute ==
    /\ Idle
    /\ \E code \in Codes :
          /\ EnterExecute(<<code>>)
          /\ trace' = [NoTrace EXCEPT !.code = code]
    /\ api' = "execute"
    /\ calls' = calls + 1
    /\ outcome' = NoOutcome
    /\ UNCHANGED <<host_vars, ctor_vars, files, child_env, containers>>

\* Sandbox.run(code), up to the call of execute_script.
CallRun ==
    /\ Idle
    /\ owner = "Sandbox"
    /\ \E code \in Codes :
          /\ EnterExecute(_generate_script(code))
          /\ trace' = [NoTrace EXCEPT !.code = code]
    /\ api' = "run"
    /\ calls' = calls + 1
    /\ outcome' = NoOutcome
    /\ UNCHANGED <<host_vars, ctor_vars, files, child_env, containers>>

\* Sandbox.run_function(code, inputs=..., is_async=...), up to the call of
\* execute_script; an encoding failure returns at once.
CallRunFunction ==
    /\ Idle
    /\ owner = "Sandbox"
    /\ \E code \in Codes, inputs \in InputMappings, is_async \in BOOLEAN :
          LET enc == encode_inputs(inputs)
          IN  /\ trace' = [NoTrace EXCEPT !.code = code, !.inputs = inputs]
              /\ IF enc.ok
                 THEN /\ EnterExecute(_generate_function_script(code, enc.text, is_async))
                      /\ outcome' = NoOutcome
                 ELSE /\ outcome' = Return([stdout |-> <<>>, stderr |-> enc.exc.msg,
                                            error |-> Some(enc.exc.msg)])
                      /\ pc' = "idle"
                      /\ executes' = 0
                      /\ exec_outcome' = NoOutcome
                      /\ script' = <<>>
                      /\ UNCHANGED <<result, pending, tmp_path, container, child, elapsed>>
    /\ api' = "run_function"
    /\ calls' = calls + 1
    /\ UNCHANGED <<host_vars, ctor_vars, files, child_env, containers>>

\* ------------------------------------------------------ process backend
\* Number of this call among all calls of all callers.
CallId == calls + caller * (MaxCalls + 1)

\* A file name fixed when the runner was constructed, the same for every
\* call.
TmpName_Shared == entered

\* File name tempfile picks: unique per call.
TmpName == CallId

\* The exception e strikes inside execute_script.
Struck(e) == trace' = [trace EXCEPT !.fault = e]

\* tempfile.NamedTemporaryFile(mode="w", suffix=".py", delete=False): the
\* file is created on the host, or the creation fails with OSError.
SubCreateTemp ==
    /\ pc = "sub_tmp"
    /\ \E fault \in {"none", "OSError"} :
          IF fault = "none"
          THEN /\ files' = files \cup {TmpName}
               /\ pc' = "sub_write"
               /\ UNCHANGED <<pending, trace>>
          ELSE /\ pending' = Exc("OSError", <<"cannot create temporary file">>)
               /\ Struck(pending')
               /\ pc' = "sub_finally"
               /\ UNCHANGED files
    /\ UNCHANGED <<host_vars, ctor_vars, call_vars, script, result, tmp_path, child_env,
                   dk_vars, guest_vars, out_vars>>

\* tmp_file.write(script_content); tmp_path = Path(tmp_file.name); then the
\* with block closes the file.  write raises UnicodeEncodeError on text the
\* codec rejects and may raise OSError; close may raise OSError.
SubWrite ==
    /\ pc = "sub_write"
    /\ \E fault \in {"none", "write", "close"} :
          IF ~Encodable(script)
          THEN /\ pending' = Exc("UnicodeEncodeError", <<"surrogates not allowed">>)
               /\ Struck(pending')
               /\ pc' = "sub_finally"
               /\ UNCHANGED tmp_path
          ELSE IF fault = "write"
          THEN /\ pending' = Exc("OSError", <<"No space left on device">>)
               /\ Struck(pending')
               /\ pc' = "sub_finally"
               /\ UNCHANGED tmp_path
          ELSE IF fault = "close"
          THEN /\ tmp_path' = TmpName
               /\ pending' = Exc("OSError", <<"No space left on device">>)
               /\ Struck(pending')
               /\ pc' = "sub_finally"
          ELSE /\ tmp_path' = TmpName
               /\ pc' = "sub_spawn"
               /\ UNCHANGED <<pending, trace>>
    /\ script' = <<>>
    /\ UNCHANGED <<host_vars, ctor_vars, call_vars, result, files, child_env,
                   dk_vars, guest_vars, out_vars>>

\* `except Exception as e` that leaves result["stderr"] as it is.
UnexpectedError_NoAnnotation(prefix, r, e) ==
    [r EXCEPT !.error = Some(<<prefix>> \o e.msg)]

\* result["error"] / result["stderr"] of `except Exception as e`.
UnexpectedError(prefix, r, e) ==
    [r EXCEPT !.error = Some(<<prefix>> \o e.msg),
              !.stderr = r.stderr \o <<"\n[Runner Error] ">> \o e.msg]

\* subprocess.run(command, env=self.environment, timeout=self.timeout, ...)
\* starts the child, or fails to: FileNotFoundError is re-raised, any other
\* exception is put into the result.
SubSpawn ==
    /\ pc = "sub_spawn"
    /\ \E fault \in {"none", "FileNotFoundError", "PermissionError"} :
          CASE fault = "none" ->
                 /\ child' = "running"
                 /\ elapsed' = 0
                 /\ child_env' = runner.environment
                 /\ pc' = "sub_wait"
                 /\ UNCHANGED <<result, pending, trace>>
            [] fault = "FileNotFoundError" ->
                 /\ pending' = Exc("FileNotFoundError", <<"'uv' command path invalid.">>)
                 /\ Struck(Exc(fault, <<"No such file or directory">>))
                 /\ pc' = "sub_finally"
                 /\ UNCHANGED <<result, child, elapsed, child_env>>
            [] OTHER ->
                 /\ result' = UnexpectedError("Subprocess runner unexpected error: ",
                                              result, Exc(fault, <<"Permission denied">>))
                 /\ Struck(Exc(fault, <<"Permission denied">>))
                 /\ pc' = "sub_finally"
                 /\ UNCHANGED <<pending, child, elapsed, child_env>>
    /\ UNCHANGED <<host_vars, ctor_vars, call_vars, script, tmp_path, files, dk_vars, out_vars>>

\* ------------------------------------------------------------- the guest
\* JSON texts a guest may print as one line.
J_RESULT == "{\"result\": 7}"
J_ERROR == "{\"error\": \"boom\"}"
J_BOTH == "{\"result\": 7, \"error\": \"boom\"}"
J_NEITHER == "{\"status\": 1}"
J_LIST == "[1, 2]"
J_ERROR_INT == "{\"error\": 5}"
\* The lines the trailer of the function-call artifact prints for a failure.
J_EXEC_ERROR == "{\"error\": \"Error during execution: boom\\nTraceback\"}"
J_NOT_SERIALIZABLE == "{\"error\": \"Function result not JSON serializable: object\"}"
J_FATAL == "{\"error\": \"Fatal: Could not dump final output: surrogates not allowed\"}"

\* error_details, err_msg and err_fallback["error"] of the trailer.
ExecErrorMsg == <<"Error during execution: ", "boom", "\n", "Traceback">>
NotSerializableMsg == <<"Function result not JSON serializable: ", "object">>
FatalMsg == <<"Fatal: Could not dump final output: ", "surrogates not allowed">>

\* What the guest writes to stdout and stderr, and its exit status.
GuestStdouts ==
    { <<>>, <<"\n">>, <<"hello", "\n">>, <<J_RESULT, "\n">>, <<J_ERROR, "\n">>,
      <<J_BOTH, "\n">>, <<J_NEITHER, "\n">>, <<J_LIST, "\n">>,
      <<J_ERROR_INT, "\n">>, <<"hello", "\n", J_RESULT, "\n">> }
GuestStderrs == { <<>>, <<"boom", "\n">>, <<"warning", "\n">> }
ExitCodes == {0, 1, -9}

\* What the caller's code does inside the function-call artifact: the
\* function returns a value (a number, an object json cannot serialize, a
\* list that holds itself, a str with a lone surrogate), prints and returns,
\* raises an Exception, calls sys.exit(1), or the code raises at module
\* level before the function is called.
GuestBehaviours ==
    {"returns", "prints_and_returns", "returns_object", "returns_cycle",
     "returns_surrogate", "raises", "exits", "module_raises"}

\* The run of the function-call artifact (the script template of
\* _generate_function_script) for one behaviour of the caller's code: what
\* it writes to stdout and stderr and the status it exits with.
FunctionArtifact(b) ==
    LET Run(returncode, out, err) ==
            [behaviour |-> b, returncode |-> returncode, stdout |-> out, stderr |-> err]
        \* The interpreter ends on an exception nothing caught.
        Uncaught(out, err) == Run(1, out, err \o <<"Traceback", "\n">>)
        printed == IF b = "prints_and_returns" THEN <<"hello", "\n">> ELSE <<>>
        \* try: output_result = main(**inputs_dict) / except Exception as e
        error_details == IF b = "raises" THEN Some(ExecErrorMsg) ELSE None
        err1 == IF error_details.set THEN error_details.text \o <<"\n">> ELSE <<>>
        \* if error_details is None: try: json.dumps(output_result) / except TypeError
        err2 == IF b = "returns_object" THEN err1 \o NotSerializableMsg \o <<"\n">> ELSE err1
        final_output_dict ==
            IF error_details.set THEN J_EXEC_ERROR
            ELSE IF b = "returns_object" THEN J_NOT_SERIALIZABLE
            ELSE J_RESULT
    IN  IF b = "module_raises" THEN Uncaught(<<>>, <<>>)
        \* SystemExit is not an Exception: it leaves the first try block.
        ELSE IF b = "exits" THEN Run(1, printed, <<>>)
        \* ValueError("Circular reference detected") is not a TypeError.
        ELSE IF b = "returns_cycle" THEN Uncaught(printed, err1)
        \* try: print(json.dumps(final_output_dict, ensure_ascii=False)) /
        \* except Exception: the fallback line is printed instead.
        ELSE IF b = "returns_surrogate"
        THEN Run(0, printed \o <<J_FATAL, "\n">>, err2 \o FatalMsg \o <<"\n">>)
        ELSE Run(0, printed \o <<final_output_dict, "\n">>, err2)

\* The runs of a guest: any status with any output, and for the
\* function-call artifact also the runs its trailer produces.
GuestRuns(name) ==
    { [behaviour |-> "other", returncode |-> returncode, stdout |-> out, stderr |-> err] :
        returncode \in ExitCodes, out \in GuestStdouts, err \in GuestStderrs }
    \cup { [behaviour |-> "other", returncode |-> returncode, stdout |-> out,
             stderr |-> LongText] :
             returncode \in {0, 1}, out \in {<<>>, <<J_ERROR, "\n">>} }
    \cup { [behaviour |-> "other", returncode |-> 0, stdout |-> LongText, stderr |-> <<>>] }
    \cup (IF name = "run_function"
          THEN { FunctionArtifact(b) : b \in GuestBehaviours }
          ELSE {})

\* The nonzero-exit error without the captured stderr.
ExitError_NoStderr(prefix, returncode, stderr) ==
    Some(<<prefix, IntStr(returncode), "). ">>)

\* Error of a guest command that ended with a nonzero status.
ExitError(prefix, returncode, stderr) ==
    Some(<<prefix, IntStr(returncode), "). ", "Stderr: ">> \o Strip(stderr))

\* The clock advances while the guest runs.  On the process backend the
\* wait ends when the timeout is reached.
Tick ==
    /\ child = "running"
    /\ elapsed < MaxTicks
    /\ pc = "sub_wait" => (runner.timeout = NoTimeout \/ elapsed < runner.timeout)
    /\ elapsed' = elapsed + 1
    /\ UNCHANGED <<host_vars, trace, ctor_vars, call_vars, script, pc, result, pending, sub_vars,
                   dk_vars, child, out_vars>>

\* The child exits before the timeout: subprocess.run returns a
\* CompletedProcess and lines 110-117 fill the result.
SubGuestExit ==
    /\ pc = "sub_wait"
    /\ child = "running"
    /\ runner.timeout = NoTimeout \/ elapsed < runner.timeout
    /\ \E g \in GuestRuns(api) :
          /\ result' = [result EXCEPT
                          !.stdout = g.stdout,
                          !.stderr = g.stderr,
                          !.error = IF g.returncode # 0
                                    THEN ExitError("Subprocess failed (exit code ",
                                                   g.returncode, g.stderr)
                                    ELSE result.error]
          /\ trace' = [trace EXCEPT !.ended = "exit", !.returncode = g.returncode,
                                    !.stdout = g.stdout, !.stderr = g.stderr,
                                    !.behaviour = g.behaviour]
    /\ child' = "exited"
    /\ elapsed' = 0
    /\ pc' = "sub_finally"
    /\ UNCHANGED <<host_vars, ctor_vars, call_vars, script, pending, sub_vars, dk_vars,
                   out_vars>>

\* A timeout reported as the death of the child by a signal.
TimeoutResult_AsExit(r, timeout) ==
    [r EXCEPT !.error = ExitError("Subprocess failed (exit code ", -9, r.stderr)]

\* Result after `except subprocess.TimeoutExpired`.
TimeoutResult(r, timeout) ==
    [r EXCEPT !.error = Some(<<"Subprocess timed out after ", IntStr(timeout),
                               " seconds.">>),
              !.stderr = r.stderr \o <<"\n[Runner Error] TimeoutExpired">>]

\* The timeout expires while the child is running: subprocess.run kills the
\* child, collects what it wrote so far into the TimeoutExpired it raises,
\* and execute_script catches the exception without binding it.
SubTimeout ==
    /\ pc = "sub_wait"
    /\ child = "running"
    /\ runner.timeout # NoTimeout
    /\ elapsed >= runner.timeout
    /\ child' = "killed"
    /\ result' = TimeoutResult(result, runner.timeout)
    /\ \E out \in GuestStdouts, err \in GuestStderrs :
          trace' = [trace EXCEPT !.ended = "timeout", !.stdout = out, !.stderr = err,
                                 !.behaviour = "other"]
    /\ elapsed' = 0
    /\ pc' = "sub_finally"
    /\ UNCHANGED <<host_vars, ctor_vars, call_vars, script, pending, sub_vars, dk_vars,
                   out_vars>>

\* What execute_script hands back once its finally block has run.
Leave(r, e) == IF e = NoExc THEN Return(r) ELSE Raise(e)

\* finally: if tmp_path and tmp_path.exists(): tmp_path.unlink(); then the
\* function returns result or the pending exception propagates.
SubFinally ==
    /\ pc = "sub_finally"
    /\ files' = IF tmp_path # 0 /\ tmp_path \in files THEN files \ {tmp_path} ELSE files
    /\ exec_outcome' = Leave(result, pending)
    /\ pc' = "returned"
    /\ UNCHANGED <<host_vars, trace, ctor_vars, call_vars, script, result, pending, tmp_path,
                   child_env, dk_vars, guest_vars, outcome>>

\* ---------------------------------------------------- container backend
\* run_settings of execute_script (lines 84-106).
RunSettings(r) ==
    LET base == [image |-> r.image, command |-> "tail -f /dev/null",
                 detach |-> TRUE, remove |-> TRUE, environment |-> r.environment,
                 security_opt |-> <<"no-new-privileges">>, cap_drop |-> <<"ALL">>]
        default_container_settings ==
            IF ~r.allow_network THEN Merge([network_mode |-> "none"], base) ELSE base
        run_settings == Merge(r.container_kwargs, default_container_settings)
    IN  IF ~r.allow_network /\ Get(r.container_kwargs, "network_mode") = "None"
        THEN Merge([network_mode |-> "none"], run_settings)
        ELSE run_settings

\* The except clauses with no `raise RuntimeError(...) from e`.
DockerExcept_NoRaise(r, e) ==
    IF IsNotFound(e)
    THEN [result |-> [r EXCEPT !.error = Some(<<"Docker image/container error: ">> \o e.msg)],
          pending |-> NoExc]
    ELSE IF IsDockerException(e)
    THEN [result |-> [r EXCEPT !.error = Some(<<"Docker operation failed: ">> \o e.msg)],
          pending |-> NoExc]
    ELSE [result |-> UnexpectedError("Docker runner unexpected error: ", r, e),
          pending |-> NoExc]

\* The except clauses of execute_script: the result and the exception that
\* propagates (NoExc when the exception is absorbed).
DockerExcept(r, e) ==
    IF IsNotFound(e)
    THEN LET m == <<"Docker image/container error: ">> \o e.msg
         IN  [result |-> [r EXCEPT !.error = Some(m)], pending |-> Exc("RuntimeError", m)]
    ELSE IF IsDockerException(e)
    THEN LET m == <<"Docker operation failed: ">> \o e.msg
         IN  [result |-> [r EXCEPT !.error = Some(m)], pending |-> Exc("RuntimeError", m)]
    ELSE [result |-> UnexpectedError("Docker runner unexpected error: ", r, e),
          pending |-> NoExc]

\* An exception leaves the try block at the current position.
DockerFail(e) ==
    /\ result' = DockerExcept(result, e).result
    /\ pending' = DockerExcept(result, e).pending
    /\ Struck(e)
    /\ pc' = "dk_finally"

DaemonFaults == {"NotFound", "APIError", "TypeError"}
Fault(type) == Exc(type, <<type, " raised">>)

\* client = docker.from_env(**self.docker_client_kwargs); client.ping()
DockerConnect ==
    /\ pc = "dk_connect"
    /\ \E fault \in {"none", "DockerException", "TypeError"} :
          IF fault = "none"
          THEN pc' = "dk_run" /\ UNCHANGED <<result, pending, trace>>
          ELSE DockerFail(Fault(fault))
    /\ UNCHANGED <<host_vars, ctor_vars, call_vars, script, sub_vars, dk_vars, guest_vars,
                   out_vars>>

\* Identifier the daemon gives the container of this call.
ContainerId == CallId

\* container = client.containers.run(**run_settings).  With detach=True the
\* client returns a Container object, so `if not container` never raises.
DockerRun ==
    /\ pc = "dk_run"
    /\ LET run_settings == RunSettings(runner)
       IN  IF run_settings.image \notin AvailableImages
           THEN DockerFail(Exc("ImageNotFound", <<"No such image">>))
                /\ UNCHANGED dk_vars
           ELSE \E fault \in {"none", "APIError", "TypeError"} :
                  IF fault = "none"
                  THEN /\ containers' =
                            Merge([i \in {ContainerId} |->
                                     [settings |-> run_settings, state |-> "running",
                                      stops |-> 0]],
                                  containers)
                       /\ container' = ContainerId
                       /\ pc' = "dk_put"
                       /\ UNCHANGED <<result, pending, trace>>
                  ELSE DockerFail(Fault(fault)) /\ UNCHANGED dk_vars
    /\ UNCHANGED <<host_vars, ctor_vars, call_vars, script, sub_vars, guest_vars, out_vars>>

\* tar_stream = self._create_tar_stream(script_content, script_filename),
\* where content.encode("utf-8") raises UnicodeEncodeError on text the codec
\* rejects; then container.put_archive("/", tar_stream).
DockerPutArchive ==
    /\ pc = "dk_put"
    /\ \E fault \in {"none"} \cup DaemonFaults :
          IF ~Encodable(script)
          THEN DockerFail(Exc("UnicodeEncodeError", <<"surrogates not allowed">>))
          ELSE IF fault = "none"
          THEN pc' = "dk_exec" /\ UNCHANGED <<result, pending, trace>>
          ELSE DockerFail(Fault(fault))
    /\ script' = <<>>
    /\ UNCHANGED <<host_vars, ctor_vars, call_vars, sub_vars, dk_vars, guest_vars,
                   out_vars>>

\* container.exec_run(cmd=["uv", "run", path], stream=False, demux=True)
\* starts the guest in the container and blocks until it ends.
DockerExecStart ==
    /\ pc = "dk_exec"
    /\ \E fault \in {"none"} \cup DaemonFaults :
          IF fault = "none"
          THEN /\ child' = "running"
               /\ elapsed' = 0
               /\ pc' = "dk_wait"
               /\ UNCHANGED <<result, pending, trace>>
          ELSE DockerFail(Fault(fault)) /\ UNCHANGED guest_vars
    /\ UNCHANGED <<host_vars, ctor_vars, call_vars, script, sub_vars, dk_vars, out_vars>>

\* exec_run giving up on a guest that runs longer than self.timeout.
DockerExecRaise_OrTimeout ==
    /\ pc = "dk_wait"
    /\ child = "running"
    /\ IF runner.timeout # NoTimeout /\ elapsed >= runner.timeout
       THEN /\ child' = "killed"
            /\ result' = [result EXCEPT
                            !.error = Some(<<"Docker execution timed out after ",
                                             IntStr(runner.timeout), " seconds.">>)]
            /\ pc' = "dk_finally"
            /\ UNCHANGED <<pending, trace>>
       ELSE /\ \E fault \in DaemonFaults : DockerFail(Fault(fault))
            /\ UNCHANGED child
    /\ elapsed' = 0
    /\ UNCHANGED <<host_vars, ctor_vars, call_vars, script, sub_vars, dk_vars, out_vars>>

\* exec_run raises while the guest is running.
DockerExecRaise ==
    /\ pc = "dk_wait"
    /\ child = "running"
    /\ \E fault \in DaemonFaults : DockerFail(Fault(fault))
    /\ elapsed' = 0
    /\ UNCHANGED <<host_vars, ctor_vars, call_vars, script, sub_vars, dk_vars, child,
                   out_vars>>

\* The guest ends: exec_run returns (exit_code, (stdout_bytes, stderr_bytes))
\* and lines 120-132 fill the result.
DockerGuestExit ==
    /\ pc = "dk_wait"
    /\ child = "running"
    /\ \E g \in GuestRuns(api) :
          /\ result' = [result EXCEPT
                          !.stdout = g.stdout,
                          !.stderr = g.stderr,
                          !.error = IF g.returncode # 0
                                    THEN ExitError("Docker execution failed (exit code ",
                                                   g.returncode, g.stderr)
                                    ELSE result.error]
          /\ trace' = [trace EXCEPT !.ended = "exit", !.returncode = g.returncode,
                                    !.stdout = g.stdout, !.stderr = g.stderr,
                                    !.behaviour = g.behaviour]
    /\ child' = "exited"
    /\ elapsed' = 0
    /\ pc' = "dk_finally"
    /\ UNCHANGED <<host_vars, ctor_vars, call_vars, script, pending, sub_vars, dk_vars,
                   out_vars>>

\* The container stopped in the try block and again in the finally block.
Stopped_Twice(c, fails) ==
    [c EXCEPT !.stops = c.stops + 2,
              !.state = IF fails THEN c.state ELSE "removed"]

\* container.stop(timeout=5) on the daemon: the container stops (and, with
\* remove=True, is removed) unless the stop fails.
Stopped(c, fails) ==
    [c EXCEPT !.stops = c.stops + 1,
              !.state = IF fails THEN c.state ELSE "removed"]

\* finally: if container: with suppress(DockerException, Exception):
\* container.stop(timeout=5); then the function returns result or the
\* pending exception propagates.
DockerFinally ==
    /\ pc = "dk_finally"
    /\ \E stop_fails \in BOOLEAN :
          containers' = IF container # 0
                        THEN [containers EXCEPT
                                ![container] = Stopped(containers[container], stop_fails)]
                        ELSE containers
    /\ exec_outcome' = Leave(result, pending)
    /\ pc' = "returned"
    /\ UNCHANGED <<host_vars, trace, ctor_vars, call_vars, script, result, pending, sub_vars,
                   container, guest_vars, outcome>>

\* ---------------------------------------------------------- result codec
\* A decoded JSON value: its type and its text.
JsonStr(t) == [type |-> "str", text |-> t]
JsonInt(t) == [type |-> "int", text |-> t]

\* json.loads of one JSON text: whether it is a dict, and its items.
JsonValue(tok) ==
    CASE tok = J_RESULT -> [isdict |-> TRUE, items |-> [result |-> JsonInt(<<"7">>)]]
      [] tok = J_ERROR -> [isdict |-> TRUE, items |-> [error |-> JsonStr(<<"boom">>)]]
      [] tok = J_BOTH -> [isdict |-> TRUE,
                          items |-> [result |-> JsonInt(<<"7">>),
                                     error |-> JsonStr(<<"boom">>)]]
      [] tok = J_NEITHER -> [isdict |-> TRUE, items |-> [status |-> JsonInt(<<"1">>)]]
      [] tok = J_ERROR_INT -> [isdict |-> TRUE, items |-> [error |-> JsonInt(<<"5">>)]]
      [] tok = J_EXEC_ERROR -> [isdict |-> TRUE, items |-> [error |-> JsonStr(ExecErrorMsg)]]
      [] tok = J_NOT_SERIALIZABLE ->
             [isdict |-> TRUE, items |-> [error |-> JsonStr(NotSerializableMsg)]]
      [] tok = J_FATAL -> [isdict |-> TRUE, items |-> [error |-> JsonStr(FatalMsg)]]
      [] OTHER -> [isdict |-> FALSE, items |-> EmptyDict]
JsonTexts ==
    {J_RESULT, J_ERROR, J_BOTH, J_NEITHER, J_LIST, J_ERROR_INT, J_EXEC_ERROR,
     J_NOT_SERIALIZABLE, J_FATAL}

Preview(t) ==
    IF Len(t) > PREVIEW_LIMIT THEN SubSeq(t, 1, PREVIEW_LIMIT) \o <<"...">> ELSE t

\* decode_result_from_stdout parsing only the last line of stdout.
decode_result_from_stdout_LastLine(stdout) ==
    LET text == Strip(stdout)
    IN  IF Len(text) >= 1 /\ text[Len(text)] \in JsonTexts
        THEN [ok |-> TRUE, value |-> JsonValue(text[Len(text)])]
        ELSE [ok |-> FALSE,
              exc |-> Exc("ValueError",
                          <<"Failed to decode JSON result from stdout: ",
                            "Output preview: ">> \o Preview(stdout))]

\* decode_result_from_stdout: json.loads(stdout.strip()) parses the whole of
\* the stripped stdout, which succeeds when it is exactly one JSON text.
decode_result_from_stdout(stdout) ==
    LET text == Strip(stdout)
    IN  IF Len(text) = 1 /\ text[1] \in JsonTexts
        THEN [ok |-> TRUE, value |-> JsonValue(text[1])]
        ELSE [ok |-> FALSE,
              exc |-> Exc("ValueError",
                          <<"Failed to decode JSON result from stdout: ",
                            "Output preview: ">> \o Preview(stdout))]

\* needle in hay, for str operands.
Contains(hay, needle) ==
    \E i \in 0..(Len(hay) - Len(needle)) : SubSeq(hay, i + 1, i + Len(needle)) = needle

\* Result(stdout="", stderr=err_str, error=err_str)
ErrorResult(err_str) == [stdout |-> <<>>, stderr |-> err_str, error |-> Some(err_str)]

SetupError(prefix, e) == ErrorResult(<<prefix>> \o e.msg \o <<"\n", "Traceback">>)

\* ------------------------------------------------------ outcome assembler
\* Lines 243-255 with the substring test the other way round: the backend
\* stderr is looked for in the guest's error.
WithScriptError_Reversed(r, script_error) ==
    LET runner_stderr == r.stderr
        combined_error ==
            <<"Script Error: ">> \o script_error
            \o (IF runner_stderr # <<>> /\ ~Contains(script_error, runner_stderr)
                THEN <<"\n--- Runner Stderr ---\n">> \o runner_stderr
                ELSE <<>>)
    IN  [r EXCEPT !.error = Some(combined_error),
                  !.stderr = IF ~Contains(script_error, runner_stderr)
                             THEN Strip(runner_stderr \o <<"\n">> \o script_error)
                             ELSE runner_stderr]

\* Lines 240-263 of run_function for a decoded dict with an "error" key whose
\* value is a str.
WithScriptError(r, script_error) ==
    LET runner_stderr == r.stderr
        combined_error ==
            <<"Script Error: ">> \o script_error
            \o (IF runner_stderr # <<>> /\ ~Contains(runner_stderr, script_error)
                THEN <<"\n--- Runner Stderr ---\n">> \o runner_stderr
                ELSE <<>>)
    IN  [r EXCEPT !.error = Some(combined_error),
                  !.stderr = IF ~Contains(runner_stderr, script_error)
                             THEN Strip(runner_stderr \o <<"\n">> \o script_error)
                             ELSE runner_stderr]

\* Lines 241-259 with `elif "result" not in` written `if "error" not in`.
AssembleDict_MissingCheck(exec_result, parsed_output) ==
    LET r1 == IF "result" \in DOMAIN parsed_output
              THEN Merge([result |-> parsed_output.result], exec_result)
              ELSE exec_result
        r2 == IF "error" \in DOMAIN parsed_output /\ parsed_output.error.type = "str"
              THEN WithScriptError(r1, parsed_output.error.text)
              ELSE r1
    IN  IF "error" \notin DOMAIN parsed_output
        THEN [r2 EXCEPT
                !.error = Some(<<"Script JSON output missing 'result' or 'error'.">>)]
        ELSE r2

\* Lines 241-259: a decoded dict is merged into the Result.  A non-str
\* "error" makes `script_error not in runner_stderr` raise TypeError, which
\* `except Exception` turns into a fresh Result.
AssembleDict(exec_result, parsed_output) ==
    LET r1 == IF "result" \in DOMAIN parsed_output
              THEN Merge([result |-> parsed_output.result], exec_result)
              ELSE exec_result
    IN  IF "error" \in DOMAIN parsed_output
        THEN IF parsed_output.error.type = "str"
             THEN WithScriptError(r1, parsed_output.error.text)
             ELSE SetupError("Error in sandbox.run_function setup: ",
                             Exc("TypeError",
                                 <<"'in <string>' requires string as left operand">>))
        ELSE IF "result" \notin DOMAIN parsed_output
        THEN [r1 EXCEPT
                !.error = Some(<<"Script JSON output missing 'result' or 'error'.">>)]
        ELSE r1

\* stderr with no slice taken.
Excerpt_Whole(t) == t

\* stderr[:1000]
Excerpt(t) == SubSeq(t, 1, IF Len(t) < PREVIEW_LIMIT THEN Len(t) ELSE PREVIEW_LIMIT)

\* Lines 235-271 with every decoded JSON value taken as well-formed output.
Decoded_AcceptsAny(exec_result) ==
    IF exec_result.stdout # <<>>
    THEN LET dec == decode_result_from_stdout(exec_result.stdout)
         IN  IF ~dec.ok
             THEN [exec_result EXCEPT
                     !.error = Some(<<"Failed to parse JSON from stdout: ">> \o dec.exc.msg)]
             ELSE IF ~dec.value.isdict
             THEN exec_result
             ELSE AssembleDict(exec_result, dec.value.items)
    ELSE IF exec_result.stderr # <<>>
    THEN [exec_result EXCEPT
            !.error = Some(<<"Execution failed (no stdout). Stderr: ">>
                           \o Excerpt(exec_result.stderr))]
    ELSE exec_result

\* Lines 235-271: the Result of a backend that reported no error.
Decoded(exec_result) ==
    IF exec_result.stdout # <<>>
    THEN LET dec == decode_result_from_stdout(exec_result.stdout)
         IN  IF ~dec.ok
             THEN [exec_result EXCEPT
                     !.error = Some(<<"Failed to parse JSON from stdout: ">> \o dec.exc.msg)]
             ELSE IF ~dec.value.isdict
             THEN [exec_result EXCEPT
                     !.error = Some(<<"Script JSON output was not a dictionary.">>)]
             ELSE AssembleDict(exec_result, dec.value.items)
    ELSE IF exec_result.stderr # <<>>
    THEN [exec_result EXCEPT
            !.error = Some(<<"Execution failed (no stdout). Stderr: ">>
                           \o Excerpt(exec_result.stderr))]
    ELSE exec_result

\* run_function without the early return on a backend error.
Assemble_NoEarlyReturn(exec_result) == Decoded(exec_result)

\* Lines 232-273 of run_function applied to the Result execute_script
\* returned: the Result run_function returns.
Assemble(exec_result) ==
    IF Truthy(exec_result.error) THEN exec_result ELSE Decoded(exec_result)

\* ------------------------------------------------------ end of an API call
AfterExecute(name) == pc = "returned" /\ api = name

\* A direct call of execute_script returns or raises to the caller.
ExecuteFinish ==
    /\ AfterExecute("execute")
    /\ outcome' = exec_outcome
    /\ pc' = "idle"
    /\ UNCHANGED <<host_vars, trace, ctor_vars, call_vars, script, result, pending, sub_vars,
                   dk_vars, guest_vars, exec_outcome>>

\* What Sandbox.run does with what execute_script handed back.
RunOutcome(eo) ==
    IF eo.kind = "return" THEN Return(eo.value)
    ELSE Return(SetupError("Error in sandbox.run setup: ", eo.exc))

\* Sandbox.run calling execute_script once more after an execution that
\* failed.
RunFinish_Retry ==
    /\ AfterExecute("run")
    /\ IF executes < 2 /\ (exec_outcome.kind = "raise" \/ Truthy(exec_outcome.value.error))
       THEN /\ script' = _generate_script(trace.code)
            /\ result' = InitialResult
            /\ pending' = NoExc
            /\ tmp_path' = 0
            /\ container' = 0
            /\ child' = "none"
            /\ elapsed' = 0
            /\ executes' = executes + 1
            /\ exec_outcome' = NoOutcome
            /\ pc' = EntryPc
            /\ UNCHANGED <<calls, api, outcome, files, child_env>>
       ELSE /\ outcome' = RunOutcome(exec_outcome)
            /\ pc' = "idle"
            /\ UNCHANGED <<call_vars, script, result, pending, sub_vars, container,
                           guest_vars, exec_outcome>>
    /\ UNCHANGED <<host_vars, trace, ctor_vars, containers>>

\* Sandbox.run after execute_script: return its Result, or catch its
\* exception (except Exception) and return a Result describing it.
RunFinish ==
    /\ AfterExecute("run")
    /\ outcome' = RunOutcome(exec_outcome)
    /\ pc' = "idle"
    /\ UNCHANGED <<host_vars, trace, ctor_vars, call_vars, script, result, pending, sub_vars,
                   dk_vars, guest_vars, exec_outcome>>

\* run_function returning what execute_script returned, undecoded.
RunFunctionOutcome_NoDecode(eo) ==
    IF eo.kind = "return" THEN Return(eo.value)
    ELSE IF IsValueError(eo.exc) THEN Return(ErrorResult(eo.exc.msg))
    ELSE Return(SetupError("Error in sandbox.run_function setup: ", eo.exc))

\* What Sandbox.run_function does with what execute_script handed back.
RunFunctionOutcome(eo) ==
    IF eo.kind = "return" THEN Return(Assemble(eo.value))
    ELSE IF IsValueError(eo.exc) THEN Return(ErrorResult(eo.exc.msg))
    ELSE Return(SetupError("Error in sandbox.run_function setup: ", eo.exc))

\* Sandbox.run_function after execute_script (lines 232-281).
RunFunctionFinish ==
    /\ AfterExecute("run_function")
    /\ outcome' = RunFunctionOutcome(exec_outcome)
    /\ pc' = "idle"
    /\ UNCHANGED <<host_vars, trace, ctor_vars, call_vars, script, result, pending, sub_vars,
                   dk_vars, guest_vars, exec_outcome>>

\* ---------------------------------------------------------- specification
Next ==
    \/ NewSandbox
    \/ NewRunner
    \/ CallExecute
    \/ CallRun
    \/ CallRunFunction
    \/ SubCreateTemp
    \/ SubWrite
    \/ SubSpawn
    \/ Tick
    \/ SubGuestExit
    \/ SubTimeout
    \/ SubFinally
    \/ DockerConnect
    \/ DockerRun
    \/ DockerPutArchive
    \/ DockerExecStart
    \/ DockerExecRaise
    \/ DockerGuestExit
    \/ DockerFinally
    \/ ExecuteFinish
    \/ RunFinish
    \/ RunFunctionFinish

Spec == Init /\ [][Next]_vars

\* --------------------------------------------- execute_script called twice
\* A step of a direct call of execute_script.
ExecuteStep ==
    \/ CallExecute
    \/ SubCreateTemp
    \/ SubWrite
    \/ SubSpawn
    \/ Tick
    \/ SubGuestExit
    \/ SubTimeout
    \/ SubFinally
    \/ DockerConnect
    \/ DockerRun
    \/ DockerPutArchive
    \/ DockerExecStart
    \/ DockerExecRaise
    \/ DockerGuestExit
    \/ DockerFinally
    \/ ExecuteFinish

\* The first call of execute_script on a runner.
FirstCall ==
    /\ ~first.set
    /\ pc = "idle" => calls = 0
    /\ ExecuteStep

\* The first call is over: what it was given, what struck it, what its
\* guest did and what it handed back go on record.
Remember ==
    /\ ~first.set
    /\ pc = "idle"
    /\ calls = 1
    /\ first' = [set |-> TRUE, trace |-> trace, exec_outcome |-> exec_outcome]
    /\ UNCHANGED <<uv_on_path, dependencies, given, caller, other, trace, ctor_vars,
                   call_vars, script, pc, result, pending, sub_vars, dk_vars,
                   guest_vars, out_vars>>

\* The trace t is one of a call with the artifact of the first call, struck
\* by the same fault if by any, whose guest did what the first call's did.
Follows(t) ==
    /\ t.code = first.trace.code
    /\ t.fault # NoExc => t.fault = first.trace.fault
    /\ t.ended # "none" => t = first.trace

\* A later call of execute_script on the same runner, with the same artifact
\* and the same behaviour of the guest and of the host as in the first call.
Repeat ==
    /\ first.set
    /\ ExecuteStep
    /\ Follows(trace')

NextRepeat ==
    \/ NewRunner
    \/ FirstCall
    \/ Remember
    \/ Repeat

SpecRepeat == Init /\ [][NextRepeat]_vars

\* ------------------------------------------- construction on record
\* Sandbox(runner_type=..., deps=..., environment=..., ...) with the
\* arguments of the call kept on record.
ConstructSandbox ==
    /\ owner = "none"
    /\ \E a \in SandboxArgs, deps \in DependencyMaps :
          LET made == SandboxInit(a.runner_type, a.environment, a.timeout,
                                  a.allow_network, a.allowed_env_vars,
                                  a.runner_kwargs, uv_on_path)
          IN  /\ owner' = "Sandbox"
              /\ runner' = IF made.ok THEN made.runner ELSE NoRunner
              /\ ctor_exc' = IF made.ok THEN NoExc ELSE made.exc
              /\ requested' = a.runner_type
              /\ allowed' = IF made.ok THEN made.allowed ELSE {}
              /\ entered' = entered + made.entered
              /\ dependencies' = IF made.ok THEN deps ELSE <<>>
              /\ given' = [runner_type |-> a.runner_type, environment |-> a.environment,
                           allowed_env_vars |-> a.allowed_env_vars,
                           timeout |-> a.timeout, allow_network |-> a.allow_network,
                           runner_kwargs |-> a.runner_kwargs, deps |-> deps]
    /\ UNCHANGED <<uv_on_path, caller, other, first, trace, call_vars, script, pc,
                   result, pending, sub_vars, dk_vars, guest_vars, out_vars>>

\* SubprocessSandboxRunner(...) or DockerSandboxRunner(...) constructed
\* directly, with the arguments of the call kept on record.
ConstructRunner ==
    /\ owner = "none"
    /\ \E runner_type \in _RUNNER_CLASSES, kwargs \in DirectArgs :
          LET made == RunnerCls(runner_type, kwargs, uv_on_path)
              a == Merge(kwargs, IF runner_type = "docker" THEN DockerDefaults
                                 ELSE SubprocessDefaults)
          IN  /\ owner' = "Runner"
              /\ runner' = IF made.ok THEN made.runner ELSE NoRunner
              /\ ctor_exc' = IF made.ok THEN NoExc ELSE made.exc
              /\ requested' = runner_type
              /\ allowed' = IF made.ok THEN made.allowed ELSE {}
              /\ entered' = entered + 1
              /\ given' = [runner_type |-> runner_type, environment |-> a.environment,
                           allowed_env_vars |-> a.allowed_env_vars,
                           timeout |-> a.timeout,
                           allow_network |-> IF "allow_network" \in DOMAIN a
                                             THEN a.allow_network ELSE FALSE,
                           runner_kwargs |-> kwargs, deps |-> <<>>]
    /\ UNCHANGED <<uv_on_path, dependencies, caller, other, first, trace, call_vars,
                   script, pc, result, pending, sub_vars, dk_vars, guest_vars, out_vars>>

\* A runner is constructed with its arguments on record and a call is
\* followed until the guest is started.
NextConfigured ==
    \/ ConstructSandbox
    \/ ConstructRunner
    \/ CallExecute
    \/ CallRun
    \/ CallRunFunction
    \/ SubCreateTemp
    \/ SubWrite
    \/ SubSpawn
    \/ DockerConnect
    \/ DockerRun

SpecConfigured == Init /\ [][NextConfigured]_vars

\* ------------------------------------------------------ concurrent calls
\* The variables of the call the model is following.
Frame ==
    [calls |-> calls, api |-> api, pc |-> pc, script |-> script, result |-> result,
     pending |-> pending, tmp_path |-> tmp_path, child_env |-> child_env,
     container |-> container, child |-> child, elapsed |-> elapsed,
     executes |-> executes, exec_outcome |-> exec_outcome, outcome |-> outcome,
     trace |-> trace]

\* The scheduler turns to the other caller of the runner: the locals of
\* the two calls change places; the runner, the files of the host and the
\* containers of the daemon are shared.
Switch ==
    /\ runner # NoRunner
    /\ caller' = 1 - caller
    /\ other' = Frame
    /\ calls' = other.calls
    /\ api' = other.api
    /\ pc' = other.pc
    /\ script' = other.script
    /\ result' = other.result
    /\ pending' = other.pending
    /\ tmp_path' = other.tmp_path
    /\ child_env' = other.child_env
    /\ container' = other.container
    /\ child' = other.child
    /\ elapsed' = other.elapsed
    /\ executes' = other.executes
    /\ exec_outcome' = other.exec_outcome
    /\ outcome' = other.outcome
    /\ trace' = other.trace
    /\ UNCHANGED <<uv_on_path, dependencies, given, first, ctor_vars, files, containers>>

\* A runner of either backend constructed with a timeout and nothing else.
StartRunner ==
    /\ uv_on_path
    /\ NewRunner
    /\ runner' \in {RunnerCls(t, [timeout |-> 1], TRUE).runner : t \in _RUNNER_CLASSES}

\* Guests of the concurrent calls: one artifact, two outputs, two statuses.
Modest(t) ==
    /\ t.code = "print('hi')"
    /\ t.stdout \in {<<>>, <<"hello", "\n">>, <<J_RESULT, "\n">>}
    /\ t.stderr \in {<<>>, <<"boom", "\n">>}
    /\ t.returncode \in {0, 1}

\* A step of the one call each caller makes.
ConcurrentStep ==
    /\ ExecuteStep
    /\ calls' <= 1
    /\ Modest(trace')

NextConcurrent ==
    \/ StartRunner
    \/ ConcurrentStep
    \/ Switch

\* Two callers call execute_script once each on one runner, their calls
\* interleaved in every way.
SpecConcurrent == Init /\ [][NextConcurrent]_vars

\* ------------------------------------------------------------ properties
\* The environments handed to guests so far: the child process's
\* environment and the environment of every container.
GuestEnvNames ==
    DOMAIN child_env
    \cup UNION { DOMAIN containers[c].settings.environment : c \in DOMAIN containers }

\* C1: the environment handed to the guest by either backend holds no
\* variable whose name is outside the allow-list, whatever the other
\* constructor options are.
C1_GuestEnvWithinAllowList == GuestEnvNames \subseteq allowed

\* C2: a container-backend runner constructed without allow_network starts
\* every container with network mode 'none', for every container_kwargs.
C2_NetworkIsolated ==
    (runner.type = "docker" /\ ~runner.allow_network) =>
        \A c \in DOMAIN containers :
            Get(containers[c].settings, "network_mode") = "none"

\* C3: every container is started with all capabilities dropped and the
\* no-new-privileges flag set, for every container_kwargs.
C3_PrivilegesDropped ==
    \A c \in DOMAIN containers :
        /\ containers[c].settings.cap_drop = <<"ALL">>
        /\ \E i \in 1..Len(containers[c].settings.security_opt) :
              containers[c].settings.security_opt[i] = "no-new-privileges"

IsTimeoutError(r) ==
    /\ r.error.set
    /\ r.error.text = <<"Subprocess timed out after ", IntStr(runner.timeout), " seconds.">>
    /\ r.stderr # <<>>
    /\ r.stderr[Len(r.stderr)] = "\n[Runner Error] TimeoutExpired"
IsExitError(r) ==
    r.error.set /\ r.error.text # <<>> /\ r.error.text[1] = "Subprocess failed (exit code "
TimeoutDue ==
    pc = "sub_wait" /\ child = "running" /\ runner.timeout # NoTimeout
    /\ elapsed >= runner.timeout

\* C4: on the process backend a guest still running when the timeout expires
\* is killed and execute returns a Result whose error reports the timeout
\* and is not the nonzero-exit error; a guest that ended before the timeout
\* gets no timeout error.
C4_TimeoutIsDistinct ==
    /\ [][TimeoutDue => child' = "killed"]_vars
    /\ []((pc = "returned" /\ runner.type = "subprocess") =>
            /\ child = "killed" =>
                 /\ exec_outcome.kind = "return"
                 /\ IsTimeoutError(exec_outcome.value)
                 /\ ~IsExitError(exec_outcome.value)
            /\ child = "exited" =>
                 /\ exec_outcome.kind = "return"
                 /\ ~IsTimeoutError(exec_outcome.value))
C4_Witness == pc = "returned" /\ runner.type = "subprocess" /\ child = "killed"

\* C5: on the process backend, once execute has returned or raised, the
\* temporary file of the call no longer exists, on every exit path.
C5_TempFileRemoved == pc \in {"returned", "idle"} => files = {}

InTry == pc \in {"dk_put", "dk_exec", "dk_wait", "dk_finally"}

\* C6: a container that was created is stopped exactly once before execute
\* returns or raises, on every path, and a failing stop changes neither the
\* returned Result nor the exception that propagates.
C6_StoppedExactlyOnce ==
    /\ \A c \in DOMAIN containers :
          containers[c].stops = IF c = container /\ InTry THEN 0 ELSE 1
    /\ (pc = "returned" /\ runner.type = "docker") =>
          exec_outcome = Leave(result, pending)
C6_Witness ==
    /\ pc = "returned"
    /\ container # 0
    /\ exec_outcome.kind = "raise"
    /\ containers[container].stops = 1
    /\ containers[container].state = "running"

\* A finished call on the container backend during which the daemon failed
\* (image or container not found, or another daemon error).
DaemonFailed ==
    /\ pc = "idle"
    /\ api # "none"
    /\ executes = 1
    /\ runner.type = "docker"
    /\ result.error.set
    /\ result.error.text # <<>>
    /\ result.error.text[1] \in {"Docker image/container error: ",
                                 "Docker operation failed: "}

\* C7 as stated: a daemon-level failure is raised to the caller of execute,
\* of Sandbox.run and of Sandbox.run_function, and is not put in a Result.
C7_DaemonFailureRaised == DaemonFailed => outcome.kind = "raise"

\* C7 amended: a daemon-level failure is raised as RuntimeError by the
\* runner's execute and is not returned in a Result; Sandbox.run and
\* Sandbox.run_function catch it and return a Result with empty stdout whose
\* error and stderr carry the message.
C7_DaemonFailureRaisedByExecute ==
    DaemonFailed =>
        /\ exec_outcome = Raise(Exc("RuntimeError", result.error.text))
        /\ api = "execute" => outcome = exec_outcome
        /\ api \in {"run", "run_function"} =>
              /\ outcome.kind = "return"
              /\ outcome.value.stdout = <<>>
              /\ outcome.value.error.set
              /\ Contains(outcome.value.error.text, result.error.text)
              /\ outcome.value.stderr = outcome.value.error.text
C7_Witness == DaemonFailed /\ api = "run" /\ outcome.kind = "return"

\* C8: Sandbox with an unknown backend name raises before any runner
\* constructor is entered; the process backend raises in its constructor
\* when uv is absent, so no runner exists and execute is never attempted.
C8_ConstructorFailsFast ==
    /\ (owner = "Sandbox" /\ requested \notin _RUNNER_CLASSES) =>
          /\ ctor_exc.type = "ValueError"
          /\ entered = 0
          /\ runner = NoRunner
    /\ (owner # "none" /\ requested = "subprocess" /\ ~uv_on_path) =>
          /\ ctor_exc # NoExc
          /\ runner = NoRunner
    /\ runner = NoRunner => calls = 0 /\ pc = "idle" /\ executes = 0
C8_Witness ==
    /\ owner = "Sandbox"
    /\ requested = "subprocess"
    /\ ~uv_on_path
    /\ ctor_exc.type = "FileNotFoundError"
    /\ runner = NoRunner

\* A finished API call whose execute_script returned a Result.
Finished(name) ==
    pc = "idle" /\ api = name /\ executes = 1 /\ exec_outcome.kind = "return"

\* C9: run_function returns a backend Result that has an error unchanged,
\* with no result added and stdout not decoded; run returns every backend
\* Result unchanged.
C9_BackendErrorPassedThrough ==
    /\ Finished("run") => outcome = exec_outcome
    /\ (Finished("run_function") /\ Truthy(exec_outcome.value.error)) =>
          /\ outcome = exec_outcome
          /\ "result" \notin DOMAIN outcome.value
C9_Witness ==
    /\ Finished("run_function")
    /\ Truthy(exec_outcome.value.error)
    /\ Strip(exec_outcome.value.stdout) = <<J_RESULT>>
    /\ outcome = exec_outcome

\* The guest's JSON output is a mapping with an "error" key.
GuestReportedError(stdout) ==
    LET dec == decode_result_from_stdout(stdout)
    IN  dec.ok /\ dec.value.isdict /\ "error" \in DOMAIN dec.value.items

\* C10: in every Result run_function returns, a result that is present
\* comes with error unset, unless the guest's own JSON carried an error key,
\* and then error is set.
C10_ResultExcludesError ==
    (pc = "idle" /\ api = "run_function" /\ outcome.kind = "return"
     /\ "result" \in DOMAIN outcome.value) =>
        IF executes = 1 /\ exec_outcome.kind = "return"
           /\ GuestReportedError(exec_outcome.value.stdout)
        THEN outcome.value.error.set
        ELSE outcome.value.error = None
C10_Witness ==
    /\ pc = "idle"
    /\ api = "run_function"
    /\ outcome.kind = "return"
    /\ "result" \in DOMAIN outcome.value
    /\ outcome.value.error = None

\* The one JSON text a stdout consists of, surrounding whitespace aside
\* ("" when it is not one JSON text).
JsonTextOf(stdout) ==
    LET text == Strip(stdout)
    IN  IF Len(text) = 1 /\ text[1] \in JsonTexts THEN text[1] ELSE ""

\* The keys of the JSON object a stdout consists of ({} when it is none).
JsonKeys(stdout) ==
    IF JsonValue(JsonTextOf(stdout)).isdict
    THEN DOMAIN JsonValue(JsonTextOf(stdout)).items
    ELSE {}

\* A finished run_function whose backend Result has no error.
FinishedClean == Finished("run_function") /\ ~Truthy(exec_outcome.value.error)

\* C11: when the backend Result has no error and its stdout is a JSON object
\* with a result key and no error key, run_function returns a Result whose
\* result is the decoded value, whose error is unset and whose stdout and
\* stderr are those of the backend Result.
C11_ResultDecoded ==
    (FinishedClean
     /\ "result" \in JsonKeys(exec_outcome.value.stdout)
     /\ "error" \notin JsonKeys(exec_outcome.value.stdout)) =>
        /\ outcome.kind = "return"
        /\ "result" \in DOMAIN outcome.value
        /\ outcome.value.result
             = JsonValue(JsonTextOf(exec_outcome.value.stdout)).items.result
        /\ ~Truthy(outcome.value.error)
        /\ outcome.value.stdout = exec_outcome.value.stdout
        /\ outcome.value.stderr = exec_outcome.value.stderr
C11_Witness ==
    /\ FinishedClean
    /\ exec_outcome.value.stdout = <<J_RESULT, "\n">>
    /\ exec_outcome.value.stderr = <<"warning", "\n">>
    /\ "result" \in DOMAIN outcome.value
    /\ outcome.value.result = JsonInt(<<"7">>)
    /\ outcome.value.stderr = <<"warning", "\n">>


\* The value under "error" in the JSON object a stdout consists of.
GuestError(stdout) == JsonValue(JsonTextOf(stdout)).items.error

\* C12: when the backend Result has no error and its stdout decodes to a
\* JSON object with an error key, whatever JSON value the key has,
\* run_function returns a Result whose error is set and contains the guest's
\* error message, and no result when the object has no result key.
C12_GuestErrorReported ==
    (FinishedClean /\ "error" \in JsonKeys(exec_outcome.value.stdout)) =>
        /\ outcome.kind = "return"
        /\ Truthy(outcome.value.error)
        /\ Contains(outcome.value.error.text, GuestError(exec_outcome.value.stdout).text)
        /\ "result" \notin JsonKeys(exec_outcome.value.stdout) =>
              "result" \notin DOMAIN outcome.value

\* The first part of the error a Result carries ("" when it carries none).
ErrorHead(r) == IF Truthy(r.error) THEN r.error.text[1] ELSE ""

\* C13: when the backend Result has no error and a non-empty stdout that is
\* not parseable JSON, or parses to a value that is not a mapping, or to a
\* mapping with neither result nor error, run_function returns a Result
\* whose error describes the decode or protocol failure and which has no
\* result.
C13_MalformedOutputReported ==
    (FinishedClean /\ exec_outcome.value.stdout # <<>>) =>
        LET stdout == exec_outcome.value.stdout
            Reports(head) ==
                /\ outcome.kind = "return"
                /\ ErrorHead(outcome.value) = head
                /\ "result" \notin DOMAIN outcome.value
        IN  /\ JsonTextOf(stdout) = "" =>
                 /\ Reports("Failed to parse JSON from stdout: ")
                 /\ Contains(outcome.value.error.text, Preview(stdout))
            /\ (JsonTextOf(stdout) # "" /\ ~JsonValue(JsonTextOf(stdout)).isdict) =>
                 Reports("Script JSON output was not a dictionary.")
            /\ (JsonValue(JsonTextOf(stdout)).isdict
                /\ JsonKeys(stdout) \cap {"result", "error"} = {}) =>
                 Reports("Script JSON output missing 'result' or 'error'.")
C13_Witness ==
    /\ FinishedClean
    /\ exec_outcome.value.stdout = <<J_LIST, "\n">>
    /\ ErrorHead(outcome.value) = "Script JSON output was not a dictionary."

\* The guest wrote other text to stdout before a final line of JSON.
TextBeforeJson(stdout) ==
    /\ Len(Strip(stdout)) > 1
    /\ Strip(stdout)[Len(Strip(stdout))] \in JsonTexts
LastLine(stdout) == <<Strip(stdout)[Len(Strip(stdout))], "\n">>

\* C14 as stated: run_function decodes the last line of stdout, so that a
\* result on the final JSON line is decoded into the Result although the
\* guest wrote other text to stdout before it.
C14_LastLineDecoded ==
    (FinishedClean
     /\ TextBeforeJson(exec_outcome.value.stdout)
     /\ JsonKeys(LastLine(exec_outcome.value.stdout)) = {"result"}) =>
        /\ outcome.kind = "return"
        /\ "result" \in DOMAIN outcome.value
        /\ outcome.value.result = JsonValue(JsonTextOf(LastLine(exec_outcome.value.stdout))).items.result

\* C14 amended: run_function decodes the whole of the captured stdout as one
\* JSON text; when the guest wrote other text to stdout before the final
\* JSON line, decoding fails: the Result has the parse error with a preview
\* of stdout, no result, and the stdout and stderr of the backend Result.
C14_WholeStdoutDecoded ==
    (FinishedClean /\ TextBeforeJson(exec_outcome.value.stdout)) =>
        /\ outcome.kind = "return"
        /\ ErrorHead(outcome.value) = "Failed to parse JSON from stdout: "
        /\ Contains(outcome.value.error.text, Preview(exec_outcome.value.stdout))
        /\ "result" \notin DOMAIN outcome.value
        /\ outcome.value.stdout = exec_outcome.value.stdout
        /\ outcome.value.stderr = exec_outcome.value.stderr
C14_Witness ==
    /\ FinishedClean
    /\ trace.behaviour = "prints_and_returns"
    /\ exec_outcome.value.stdout = <<"hello", "\n", J_RESULT, "\n">>
    /\ ErrorHead(outcome.value) = "Failed to parse JSON from stdout: "


\* The guest of the call ran, and stdout and stderr of the Result r are the
\* text that was captured from it.
GuestRan == trace.ended # "none"
CarriesCaptured(r) == r.stdout = trace.stdout /\ Contains(r.stderr, trace.stderr)

\* C15: every Result with an error, returned by execute_script or by
\* Sandbox.run / run_function once the guest has run, carries the stdout and
\* stderr that were captured from the guest.
C15_ErrorKeepsCapturedOutput ==
    /\ (pc \in {"returned", "idle"} /\ GuestRan /\ exec_outcome.kind = "return"
        /\ Truthy(exec_outcome.value.error)) =>
          CarriesCaptured(exec_outcome.value)
    /\ (pc = "idle" /\ GuestRan /\ api \in {"run", "run_function"}
        /\ outcome.kind = "return" /\ Truthy(outcome.value.error)) =>
          CarriesCaptured(outcome.value)

\* C16: run_function with an input mapping that cannot be encoded to JSON
\* does not raise: it returns a Result with an error, and execute_script is
\* not invoked for that call.
C16_UnencodableInputsReturned ==
    (api = "run_function" /\ trace.inputs \in NotJsonSerializable) =>
        /\ pc = "idle"
        /\ executes = 0
        /\ exec_outcome = NoOutcome
        /\ outcome.kind = "return"
        /\ Truthy(outcome.value.error)
C16_Witness ==
    /\ api = "run_function"
    /\ trace.inputs \in NotJsonSerializable
    /\ outcome.kind = "return"
    /\ ErrorHead(outcome.value) = "Inputs dictionary is not JSON serializable: "
    /\ calls = 2

\* C17: on either backend, when the guest command exits with a nonzero
\* status and no timeout occurred, execute_script returns a Result whose
\* error names the exit code and includes the captured stderr (without
\* surrounding whitespace), and whose stdout and stderr hold the captured
\* output.
C17_NonzeroExitReturned ==
    (pc = "returned" /\ trace.ended = "exit" /\ trace.returncode # 0) =>
        /\ exec_outcome.kind = "return"
        /\ ErrorHead(exec_outcome.value)
             = IF runner.type = "subprocess" THEN "Subprocess failed (exit code "
               ELSE "Docker execution failed (exit code "
        /\ exec_outcome.value.error.text[2] = IntStr(trace.returncode)
        /\ Len(exec_outcome.value.error.text) = 4 + Len(Strip(trace.stderr))
        /\ Contains(exec_outcome.value.error.text, Strip(trace.stderr))
        /\ exec_outcome.value.stdout = trace.stdout
        /\ exec_outcome.value.stderr = trace.stderr
C17_Witness ==
    /\ pc = "returned"
    /\ runner.type = "docker"
    /\ trace.ended = "exit"
    /\ trace.returncode = -9
    /\ trace.stderr = <<"boom", "\n">>
    /\ exec_outcome.kind = "return"
    /\ exec_outcome.value.stdout = <<"hello", "\n">>

\* The ways the caller's code can fail inside the function-call artifact.
GuestFailures ==
    {"raises", "returns_object", "returns_cycle", "returns_surrogate", "exits",
     "module_raises"}

\* The lines of a text that are JSON texts.
JsonLines(t) == { i \in 1..Len(t) : t[i] \in JsonTexts }

\* C18: in the function-call artifact, for every way the caller's code can
\* fail, the failure is caught and exactly one JSON line, an object with
\* exactly one of the keys result and error, is the last thing written to
\* stdout.
C18_ArtifactAlwaysEncodes ==
    (GuestRan /\ trace.behaviour \in GuestFailures) =>
        /\ Cardinality(JsonLines(trace.stdout)) = 1
        /\ JsonLines(trace.stdout) = {Len(trace.stdout) - 1}
        /\ trace.stdout[Len(trace.stdout)] = "\n"
        /\ JsonKeys(LastLine(trace.stdout)) \in {{"result"}, {"error"}}

\* The execution of the call failed.
Failed(eo) == eo.kind = "raise" \/ Truthy(eo.value.error)

\* C19: a call of Sandbox.run or Sandbox.run_function invokes execute_script
\* at most once, and exactly once when the artifact was generated; when
\* execute_script has returned or raised, the call ends with a Result, which
\* has an error if the execution failed, and execute_script is not invoked
\* again.
C19_ExecuteAtMostOnce ==
    /\ [](api \in {"run", "run_function"} =>
            executes = IF trace.inputs \in NotJsonSerializable THEN 0 ELSE 1)
    /\ [][(pc = "returned" /\ api \in {"run", "run_function"} /\ pc' # pc) =>
            /\ pc' = "idle"
            /\ executes' = executes
            /\ outcome'.kind = "return"
            /\ Failed(exec_outcome) => Truthy(outcome'.value.error)]_vars
C19_Witness ==
    /\ pc = "idle"
    /\ api = "run"
    /\ executes = 1
    /\ exec_outcome.kind = "raise"
    /\ outcome.kind = "return"
    /\ Truthy(outcome.value.error)


\* C20: execute_script leaves what the runner stores (the filtered
\* environment, the timeout, the backend options) unchanged and starts every
\* call with fresh locals, so that a second call on the same runner with the
\* same artifact, the same faults and the same behaviour of the guest hands
\* back what the first call handed back.
C20_ExecuteIsRepeatable ==
    /\ [][runner # NoRunner => (runner' = runner /\ allowed' = allowed)]_vars
    /\ [](pc \in {"sub_tmp", "dk_connect"} =>
            /\ result = InitialResult
            /\ pending = NoExc
            /\ tmp_path = 0
            /\ container = 0)
    /\ []((first.set /\ pc \in {"returned", "idle"} /\ calls >= 2
           /\ trace = first.trace) =>
            exec_outcome = first.exec_outcome)
C20_Witness ==
    /\ first.set
    /\ pc = "idle"
    /\ calls = 2
    /\ trace = first.trace
    /\ trace.ended = "timeout"
    /\ exec_outcome = first.exec_outcome
    /\ exec_outcome.kind = "return"


\* C21: when two calls of execute_script run concurrently on one runner, each
\* has a temporary file (process backend) or a container (container
\* backend) of its own; the cleanup of one call leaves the file of the other
\* in place and the container of the other running for as long as the other
\* call needs it; and a call returns the stdout and stderr of its own guest.
C21_ConcurrentCallsOwnResources ==
    /\ (tmp_path # 0 /\ other.tmp_path # 0) => tmp_path # other.tmp_path
    /\ (container # 0 /\ other.container # 0) => container # other.container
    /\ other.pc \in {"sub_spawn", "sub_wait"} => other.tmp_path \in files
    /\ other.pc \in {"dk_put", "dk_exec", "dk_wait"} =>
          /\ other.container \in DOMAIN containers
          /\ containers[other.container].state = "running"
          /\ containers[other.container].stops = 0
    /\ (pc = "returned" /\ exec_outcome.kind = "return" /\ trace.ended = "exit") =>
          /\ exec_outcome.value.stdout = trace.stdout
          /\ exec_outcome.value.stderr = trace.stderr
\* One call has returned its guest's output and removed its file while the
\* guest of the other call, which printed something else, is still needed.
C21_Witness ==
    /\ runner.type = "subprocess"
    /\ pc = "returned"
    /\ exec_outcome.kind = "return"
    /\ exec_outcome.value.stdout = <<"hello", "\n">>
    /\ tmp_path # 0
    /\ tmp_path \notin files
    /\ other.pc = "sub_wait"
    /\ other.tmp_path \in files

\* A finished run_function whose backend Result has no error and a non-empty
\* stderr, and whose guest printed a JSON object with a str under "error".
GuestErrorWithStderr ==
    /\ FinishedClean
    /\ "error" \in JsonKeys(exec_outcome.value.stdout)
    /\ GuestError(exec_outcome.value.stdout).type = "str"
    /\ exec_outcome.value.stderr # <<>>
\* The backend stderr was appended to the error of the returned Result.
StderrAppended ==
    Contains(outcome.value.error.text,
             <<"\n--- Runner Stderr ---\n">> \o exec_outcome.value.stderr)

\* C24 as stated: run_function appends the backend stderr to the error
\* exactly when that stderr is not contained in the guest error, and the
\* guest error comes first.
C24_AppendedUnlessStderrInGuestError ==
    GuestErrorWithStderr =>
        /\ StderrAppended
             <=> ~Contains(GuestError(exec_outcome.value.stdout).text,
                           exec_outcome.value.stderr)
        /\ SubSeq(outcome.value.error.text, 1,
                  1 + Len(GuestError(exec_outcome.value.stdout).text))
             = <<"Script Error: ">> \o GuestError(exec_outcome.value.stdout).text

\* C24 amended: run_function appends the backend stderr to the error exactly
\* when the guest error is not contained in that stderr; the error is
\* 'Script Error: ', the guest error, and then the appended stderr if any.
C24_AppendedUnlessGuestErrorInStderr ==
    GuestErrorWithStderr =>
        LET guest_error == GuestError(exec_outcome.value.stdout).text
            stderr == exec_outcome.value.stderr
        IN  /\ outcome.kind = "return"
            /\ StderrAppended <=> ~Contains(stderr, guest_error)
            /\ outcome.value.error.text
                 = <<"Script Error: ">> \o guest_error
                   \o (IF Contains(stderr, guest_error) THEN <<>>
                       ELSE <<"\n--- Runner Stderr ---\n">> \o stderr)
C24_Witness ==
    /\ GuestErrorWithStderr
    /\ exec_outcome.value.stdout = <<J_ERROR, "\n">>
    /\ exec_outcome.value.stderr = <<"boom", "\n">>
    /\ outcome.value.error.text = <<"Script Error: ", "boom">>

\* C25: for a backend Result with no error, empty stdout and non-empty
\* stderr, run_function sets an error that says there was no stdout and
\* holds at most the first PREVIEW_LIMIT characters of stderr; stdout and
\* stderr stay as they were.
C25_NoOutputReported ==
    (FinishedClean /\ exec_outcome.value.stdout = <<>>
     /\ exec_outcome.value.stderr # <<>>) =>
        LET stderr == exec_outcome.value.stderr
            kept == IF Len(stderr) > PREVIEW_LIMIT THEN PREVIEW_LIMIT ELSE Len(stderr)
        IN  /\ outcome.kind = "return"
            /\ outcome.value.error.set
            /\ outcome.value.error.text
                 = <<"Execution failed (no stdout). Stderr: ">> \o SubSeq(stderr, 1, kept)
            /\ Len(outcome.value.error.text) <= 1 + PREVIEW_LIMIT
            /\ outcome.value.stdout = <<>>
            /\ outcome.value.stderr = stderr
C25_Witness ==
    /\ FinishedClean
    /\ exec_outcome.value.stdout = <<>>
    /\ exec_outcome.value.stderr = LongText
    /\ Len(outcome.value.error.text) = 1 + PREVIEW_LIMIT

\* A fault struck execute_script on the container backend that is no error
\* of the docker client.
UnexpectedFault ==
    /\ runner.type = "docker"
    /\ pc = "returned"
    /\ trace.fault # NoExc
    /\ ~IsDockerException(trace.fault)

\* C26: on the container backend a failure inside execute_script that is
\* neither an image/container-not-found error nor another daemon error is
\* caught: execute_script returns a Result with error set and the runner
\* error annotation at the end of stderr, and does not raise.
C26_UnexpectedErrorReturned ==
    UnexpectedFault =>
        /\ exec_outcome.kind = "return"
        /\ exec_outcome.value.error
             = Some(<<"Docker runner unexpected error: ">> \o trace.fault.msg)
        /\ LET annotation == <<"\n[Runner Error] ">> \o trace.fault.msg
               stderr == exec_outcome.value.stderr
           IN  /\ Len(stderr) >= Len(annotation)
               /\ SubSeq(stderr, Len(stderr) - Len(annotation) + 1, Len(stderr))
                     = annotation
C26_Witness ==
    /\ UnexpectedFault
    /\ trace.fault.type = "UnicodeEncodeError"
    /\ container # 0
    /\ exec_outcome.kind = "return"

\* The error of Result r does not hold the whole of a captured text longer
\* than the preview.
OnlyPreviewed(r, captured) ==
    (r.error.set /\ Len(Strip(captured)) > PREVIEW_LIMIT) =>
        ~Contains(r.error.text, Strip(captured))

\* C27: every error placed in a Result quotes captured stdout or stderr only
\* as a bounded preview of PREVIEW_LIMIT characters, never the whole of a
\* longer output; this holds of the nonzero-exit error too.
C27_OutputOnlyPreviewed ==
    /\ (exec_outcome.kind = "return" /\ trace.ended = "exit") =>
          /\ OnlyPreviewed(exec_outcome.value, trace.stdout)
          /\ OnlyPreviewed(exec_outcome.value, trace.stderr)
    /\ (outcome.kind = "return" /\ trace.ended = "exit") =>
          /\ OnlyPreviewed(outcome.value, trace.stdout)
          /\ OnlyPreviewed(outcome.value, trace.stderr)

\* C28: every Result run_function returns has an error or a result.
C28_ErrorOrResult ==
    (pc = "idle" /\ api = "run_function" /\ outcome.kind = "return") =>
        Truthy(outcome.value.error) \/ "result" \in DOMAIN outcome.value

\* C30: on the container backend the timeout is stored on the runner and
\* bounds nothing: the wait for the guest ends only when the guest command
\* has finished or an error of the daemon or the runner struck, no guest is
\* killed, no Result reports a timeout, and a guest that runs on keeps
\* execute_script waiting past the timeout.
C30_ContainerTimeoutUnused ==
    /\ [](runner.type = "docker" =>
            /\ "timeout" \in DOMAIN runner
            /\ child # "killed"
            /\ (pc = "returned" /\ exec_outcome.kind = "return"
                /\ exec_outcome.value.error.set) =>
                  ErrorHead(exec_outcome.value)
                    \in {"Docker execution failed (exit code ",
                         "Docker runner unexpected error: "})
    /\ [][(pc = "dk_wait" /\ pc' # "dk_wait") =>
            (trace'.ended = "exit" \/ trace'.fault # NoExc)]_vars
    /\ [][(pc = "dk_wait" /\ runner.timeout # NoTimeout /\ elapsed >= runner.timeout
           /\ elapsed < MaxTicks) => ENABLED Tick]_vars
C30_Witness ==
    /\ runner.type = "docker"
    /\ runner.timeout = 1
    /\ pc = "dk_wait"
    /\ child = "running"
    /\ elapsed > runner.timeout


\* A runner was constructed with its arguments on record.
Configured == given.runner_type # "none" /\ runner # NoRunner
\* Keys of the supplied environment that are in the allow-list.
KeptNames == DOMAIN given.environment \cap allowed
\* Names of the allow-list that the supplied environment leaves out.
MissingNames(names) == {n \in names : n \in allowed /\ n \notin DOMAIN given.environment}

\* C22 as stated: on either backend the filtered environment has exactly the
\* keys of the supplied environment that are in the allow-list, with their
\* supplied values, plus PATH, HOME, USER and the temp-directory variables
\* with the host's values when they are in the allow-list and missing from
\* the supplied environment (a name the host does not define, or defines as
\* empty, may be left out or be empty).
C22_FilteredPlusHostNames ==
    Configured =>
        LET from_host == MissingNames({"PATH", "HOME", "USER", "TMPDIR", "TEMP", "TMP"})
            defined == {n \in from_host : HostGet(n) # ""}
        IN  /\ KeptNames \cup defined \subseteq DOMAIN runner.environment
            /\ DOMAIN runner.environment \subseteq KeptNames \cup from_host
            /\ \A k \in KeptNames : runner.environment[k] = given.environment[k]
            /\ \A k \in DOMAIN runner.environment \ KeptNames :
                  runner.environment[k] = HostGet(k)

\* C22 amended: the filtered environment has the keys of the supplied
\* environment that are in the allow-list, with their supplied values; the
\* process backend adds PATH, HOME and USER with the host's value (empty when
\* the host does not define the name) and TMPDIR, TEMP and TMP when the
\* host's value is not empty, each only when it is in the allow-list and
\* missing from the supplied environment; the container backend adds
\* nothing.
C22_HostNamesOnProcessBackendOnly ==
    Configured =>
        LET added == IF runner.type = "subprocess"
                     THEN MissingNames({"PATH", "HOME", "USER"})
                          \cup {n \in MissingNames({"TMPDIR", "TEMP", "TMP"}) :
                                  HostGet(n) # ""}
                     ELSE {}
        IN  /\ DOMAIN runner.environment = KeptNames \cup added
            /\ \A k \in KeptNames : runner.environment[k] = given.environment[k]
            /\ \A k \in added : runner.environment[k] = HostGet(k)
C22_Witness ==
    /\ Configured
    /\ runner.type = "subprocess"
    /\ "SECRET" \in DOMAIN given.environment
    /\ "SECRET" \notin DOMAIN runner.environment
    /\ "USER" \in DOMAIN runner.environment
    /\ runner.environment["USER"] = ""
    /\ "TMPDIR" \in DOMAIN runner.environment
    /\ "TMP" \in allowed
    /\ "TMP" \notin DOMAIN runner.environment


\* A Sandbox with its arguments on record has generated an artifact that
\* execute_script has not written out yet.
ArtifactGenerated ==
    /\ Configured
    /\ api \in {"run", "run_function"}
    /\ pc \in {"sub_tmp", "sub_write", "dk_connect", "dk_run"}
    /\ script # <<>>

\* Position of the first token of text that is tok (0 when there is none).
IndexOf(text, tok) ==
    IF \E i \in DOMAIN text : text[i] = tok
    THEN CHOOSE i \in DOMAIN text : text[i] = tok /\ \A j \in 1..(i - 1) : text[j] # tok
    ELSE 0
\* The text between the brackets of the dependencies entry of the header.
HeaderDependencies(text) ==
    SubSeq(text, IndexOf(text, "#    ") + 1, IndexOf(text, "# ]\n") - 2)
\* str.split(sep) of a text of tokens.
RECURSIVE Split(_, _)
Split(text, sep) ==
    IF IndexOf(text, sep) = 0 THEN <<text>>
    ELSE <<SubSeq(text, 1, IndexOf(text, sep) - 1)>>
         \o Split(SubSeq(text, IndexOf(text, sep) + 1, Len(text)), sep)
\* The specifiers the header of the artifact lists, in order.
ListedSpecifiers ==
    IF HeaderDependencies(script) = <<>> THEN <<>>
    ELSE Split(HeaderDependencies(script), ",\n#    ")

\* line is a quoted specifier name, name==version or name[extras]==version.
OfClaimedForm(line, name) ==
    /\ Len(line) >= 3
    /\ line[1] = "\"" /\ line[Len(line)] = "\"" /\ line[2] = name
    /\ \/ Len(line) = 3
       \/ Len(line) = 5 /\ line[3] = "=="
       \/ Len(line) >= 8 /\ line[3] = "[" /\ line[Len(line) - 3] = "]"
          /\ line[Len(line) - 2] = "=="

\* C23 as stated: the header lists the declared dependencies in insertion
\* order, each as one quoted specifier of the form name, name==version or
\* name[extra1,extra2]==version.
C23_SpecifiersOfThreeForms ==
    ArtifactGenerated =>
        /\ Len(ListedSpecifiers) = Len(given.deps)
        /\ \A i \in DOMAIN given.deps :
              OfClaimedForm(ListedSpecifiers[i], given.deps[i].name)

\* The quoted specifier of one declared dependency.
Specifier(d) ==
    LET v == d.value
        body ==
            CASE v.kind = "str" /\ v.text = "*" -> <<d.name>>
              [] v.kind = "str" /\ v.text # "*" -> <<d.name, v.text>>
              [] v.kind = "dict" /\ v.extras = <<>> /\ v.version = "" -> <<d.name>>
              [] v.kind = "dict" /\ v.extras = <<>> /\ v.version # "" ->
                   <<d.name, "==", v.version>>
              [] v.kind = "dict" /\ v.extras # <<>> ->
                   <<d.name, "[">>
                   \o [i \in 1..(2 * Len(v.extras) - 1) |->
                         IF i % 2 = 1 THEN v.extras[(i + 1) \div 2] ELSE ","]
                   \o <<"]">>
                   \o (IF v.version # "" THEN <<"==", v.version>> ELSE <<>>)
    IN  <<"\"">> \o body \o <<"\"">>

\* C23 amended: the header lists the declared dependencies in insertion
\* order, each as one quoted specifier: the name alone for the constraint
\* "*", the name followed by the constraint string as it was given for any
\* other string, and for a record the name, then [extra1,extra2] when it has
\* extras, then ==version when it has a version.
C23_SpecifiersAsDeclared ==
    ArtifactGenerated =>
        /\ Len(ListedSpecifiers) = Len(given.deps)
        /\ \A i \in DOMAIN given.deps : ListedSpecifiers[i] = Specifier(given.deps[i])
C23_Witness ==
    /\ ArtifactGenerated
    /\ Len(given.deps) = 2
    /\ given.deps[1].name = "requests"
    /\ ListedSpecifiers
         = << <<"\"", "requests", "[", "socks", ",", "security", "]", "==", "2.31", "\"">>,
              <<"\"", "cowsay", "\"">> >>

\* The runner Sandbox.__init__ makes from the arguments on record with
\* allow_network set to n.
RunnerWithNetwork(n) ==
    SandboxInit(given.runner_type, given.environment, given.timeout, n,
                given.allowed_env_vars, given.runner_kwargs, uv_on_path)

\* C29: a process-backed Sandbox built with allow_network False and one built
\* with allow_network True construct the same runner, which has no network
\* setting, and the guest is started with the runner's filtered environment
\* in both; a container-backed Sandbox hands the setting to its runner.
C29_ProcessBackendIgnoresNetwork ==
    /\ (owner = "Sandbox" /\ given.runner_type = "subprocess") =>
          /\ RunnerWithNetwork(TRUE) = RunnerWithNetwork(FALSE)
          /\ (uv_on_path /\ DOMAIN given.runner_kwargs \subseteq SubprocessParams) =>
                /\ runner # NoRunner
                /\ runner = RunnerWithNetwork(~given.allow_network).runner
                /\ "allow_network" \notin DOMAIN runner
                /\ child = "running" => child_env = runner.environment
    /\ (owner = "Sandbox" /\ Configured /\ runner.type = "docker"
        /\ "allow_network" \notin DOMAIN given.runner_kwargs) =>
          /\ runner.allow_network = given.allow_network
          /\ RunnerWithNetwork(TRUE).runner # RunnerWithNetwork(FALSE).runner
C29_Witness ==
    /\ owner = "Sandbox"
    /\ given.runner_type = "subprocess"
    /\ given.allow_network
    /\ child = "running"
    /\ child_env = RunnerWithNetwork(FALSE).runner.environment


====
